---- MODULE Spec2Model ----
(***************************************************************************)
(* SRT Lyric Sync: the timestamp codec (utils/srtUtils.ts), the undo/redo  *)
(* history hook (App.tsx, useHistoryState) and the entry collection        *)
(* handlers of App.tsx and components/SrtDisplay.tsx.                      *)
(*                                                                         *)
(* A JavaScript string is a sequence of one-character strings, so that     *)
(* formatting and parsing are computed character by character as the code  *)
(* computes them.                                                          *)
(***************************************************************************)
EXTENDS Integers, Sequences, FiniteSets, TLC

(***************************************************************************)
(* Characters and the JavaScript string primitives the code uses.          *)
(***************************************************************************)
Digits == {"0", "1", "2", "3", "4", "5", "6", "7", "8", "9"}

Whitespace == {" ", "\n", "\r", "\t"}

DigitChars == <<"0", "1", "2", "3", "4", "5", "6", "7", "8", "9">>

DigitVal(c) ==
    CHOOSE d \in 0..9 : DigitChars[d + 1] = c

MinOf(a, b) == IF a < b THEN a ELSE b

MaxOf(a, b) == IF a > b THEN a ELSE b

\* String(n) for an integer n.
RECURSIVE NatToStr(_)
NatToStr(n) ==
    IF n < 10 THEN <<DigitChars[n + 1]>>
    ELSE NatToStr(n \div 10) \o <<DigitChars[(n % 10) + 1]>>

IntToStr(n) == IF n < 0 THEN <<"-">> \o NatToStr(-n) ELSE NatToStr(n)

\* String.prototype.padStart(n, c) and padEnd(n, c) with a one-character pad.
RECURSIVE padStart(_, _, _)
padStart(s, n, c) == IF Len(s) >= n THEN s ELSE padStart(<<c>> \o s, n, c)

RECURSIVE padEnd(_, _, _)
padEnd(s, n, c) == IF Len(s) >= n THEN s ELSE padEnd(s \o <<c>>, n, c)

\* String.prototype.substring(from, to) with 0-based from, exclusive to.
substring(s, from, to) ==
    SubSeq(s, MaxOf(from, 0) + 1, MinOf(to, Len(s)))

\* String.prototype.trim().
RECURSIVE trimStart(_)
trimStart(s) ==
    IF s # <<>> /\ Head(s) \in Whitespace THEN trimStart(Tail(s)) ELSE s

RECURSIVE trimEnd(_)
trimEnd(s) ==
    IF s # <<>> /\ s[Len(s)] \in Whitespace
    THEN trimEnd(SubSeq(s, 1, Len(s) - 1)) ELSE s

trim(s) == trimEnd(trimStart(s))

\* The length of the longest prefix of s made of digits.
RECURSIVE DigitPrefixLen(_)
DigitPrefixLen(s) ==
    IF s # <<>> /\ Head(s) \in Digits THEN 1 + DigitPrefixLen(Tail(s)) ELSE 0

\* The length of the longest suffix of s made of digits.
RECURSIVE DigitSuffixLen(_)
DigitSuffixLen(s) ==
    IF s # <<>> /\ s[Len(s)] \in Digits
    THEN 1 + DigitSuffixLen(SubSeq(s, 1, Len(s) - 1)) ELSE 0

\* The value of a non-empty sequence of digits.
RECURSIVE DigitsToNat(_)
DigitsToNat(s) ==
    IF s = <<>> THEN 0
    ELSE 10 * DigitsToNat(SubSeq(s, 1, Len(s) - 1)) + DigitVal(s[Len(s)])

\* parseInt(s, 10): leading whitespace is skipped, a sign is accepted, the
\* leading digits are the value and anything after them is ignored; without
\* a leading digit the result is NaN.
parseDigits(u, n, sign) ==
    IF n = 0 THEN [nan |-> TRUE, val |-> 0]
    ELSE [nan |-> FALSE, val |-> sign * DigitsToNat(SubSeq(u, 1, n))]

parseUnsigned(u, sign) == parseDigits(u, DigitPrefixLen(u), sign)

parseSigned(t) ==
    IF t # <<>> /\ Head(t) = "-" THEN parseUnsigned(Tail(t), -1)
    ELSE IF t # <<>> /\ Head(t) = "+" THEN parseUnsigned(Tail(t), 1)
    ELSE parseUnsigned(t, 1)

parseInt(s) == parseSigned(trimStart(s))

\* parseInt(s, 10) || 0 : NaN and 0 both give 0.
parseIntOr0(s) == parseInt(s).val

\* The least element of a non-empty set of integers.
Least(S) == CHOOSE p \in S : \A q \in S : p <= q

\* The greatest element of a non-empty set of integers.
Greatest(S) == CHOOSE p \in S : \A q \in S : q <= p

\* String.prototype.split(sep) for a one-character separator.
RECURSIVE split(_, _)
split(s, sep) ==
    IF \A i \in 1..Len(s) : s[i] # sep THEN <<s>>
    ELSE LET k == Least({i \in 1..Len(s) : s[i] = sep})
         IN  <<SubSeq(s, 1, k - 1)>> \o split(SubSeq(s, k + 1, Len(s)), sep)

\* Array.prototype.filter(Boolean) on strings: the empty ones are dropped.
RECURSIVE filterNonEmpty(_)
filterNonEmpty(ss) ==
    IF ss = <<>> THEN <<>>
    ELSE (IF Head(ss) = <<>> THEN <<>> ELSE <<Head(ss)>>)
             \o filterNonEmpty(Tail(ss))

\* Array.prototype.join(sep) on strings, sep a string.
RECURSIVE join(_, _)
join(ss, sep) ==
    IF ss = <<>> THEN <<>>
    ELSE IF Len(ss) = 1 THEN ss[1]
    ELSE ss[1] \o sep \o join(Tail(ss), sep)

(***************************************************************************)
(* utils/srtUtils.ts: normalizeTimestamp, timestampToMs, msToTimestamp.    *)
(***************************************************************************)
ZeroTimestamp ==
    <<"0", "0", ":", "0", "0", ":", "0", "0", ",", "0", "0", "0">>

MsSeparators == {".", ",", ":"}

\* The place where the last line of t starts, given that the match ends
\* at k: '.' does not match a line break.
LineStart(t, k) ==
    LET nls == {i \in 1..(k - 1) : t[i] \in {"\n", "\r"}}
    IN  IF nls = {} THEN 1 ELSE 1 + Greatest(nls)

\* The match when the string ends with d digits.
msMatchEnding(t, d) ==
    LET k == Len(t) - d
    IN  IF d >= 1 /\ d <= 3 /\ k >= 1 /\ t[k] \in MsSeparators
        THEN [matched |-> TRUE, timePart |-> SubSeq(t, LineStart(t, k), k - 1),
              msPart |-> SubSeq(t, k + 1, Len(t))]
        ELSE [matched |-> FALSE, timePart |-> t, msPart |-> <<"0", "0", "0">>]

\* trimmedTimestamp.match(/(.*)([.,:])(\d{1,3})$/): the digit group is the
\* whole run of digits that ends the string, it has 1 to 3 digits, and the
\* character before it is a separator; group 1 is what precedes the
\* separator on the same line.
msMatch(t) == msMatchEnding(t, DigitSuffixLen(t))

trimEach(ss) == [i \in 1..Len(ss) |-> trim(ss[i])]

\* The rollover of seconds and minutes, and the formatting.
formatNormalized(hours0, minutes0, seconds0, msPart) ==
    LET minutes1 == IF seconds0 >= 60 THEN minutes0 + (seconds0 \div 60)
                    ELSE minutes0
        seconds == IF seconds0 >= 60 THEN seconds0 % 60 ELSE seconds0
        hours == IF minutes1 >= 60 THEN hours0 + (minutes1 \div 60) ELSE hours0
        minutes == IF minutes1 >= 60 THEN minutes1 % 60 ELSE minutes1
    IN  padStart(IntToStr(hours), 2, "0") \o <<":">>
            \o padStart(IntToStr(minutes), 2, "0") \o <<":">>
            \o padStart(IntToStr(seconds), 2, "0") \o <<",">>
            \o substring(padEnd(msPart, 3, "0"), 0, 3)

\* The hours, minutes and seconds of one, two or three segments.
normalizeSegments(timeSegments, msPart) ==
    LET n == Len(timeSegments)
    IN  IF n = 3
        THEN formatNormalized(parseIntOr0(timeSegments[1]),
                              parseIntOr0(timeSegments[2]),
                              parseIntOr0(timeSegments[3]), msPart)
        ELSE IF n = 2
        THEN formatNormalized(0, parseIntOr0(timeSegments[1]),
                              parseIntOr0(timeSegments[2]), msPart)
        ELSE IF n = 1
        THEN formatNormalized(0, 0, parseIntOr0(timeSegments[1]), msPart)
        ELSE formatNormalized(0, 0, 0, msPart)

normalizeMatched(m) ==
    normalizeSegments(filterNonEmpty(trimEach(split(m.timePart, ":"))),
                      m.msPart)

normalizeTimestamp(timestamp) ==
    IF timestamp = <<>> THEN ZeroTimestamp
    ELSE normalizeMatched(msMatch(trim(timestamp)))

\* Whether /(\d{2}):(\d{2}):(\d{2}),(\d{3})/ matches s at the 1-based place i.
CanonicalAt(s, i) ==
    /\ i + 11 <= Len(s)
    /\ \A j \in {0, 1, 3, 4, 6, 7, 9, 10, 11} : s[i + j] \in Digits
    /\ s[i + 2] = ":" /\ s[i + 5] = ":" /\ s[i + 8] = ","

\* The groups of the match at place i, in milliseconds.
msOfMatch(normalized, i) ==
    (parseIntOr0(SubSeq(normalized, i, i + 1)) * 3600
         + parseIntOr0(SubSeq(normalized, i + 3, i + 4)) * 60
         + parseIntOr0(SubSeq(normalized, i + 6, i + 7))) * 1000
        + parseIntOr0(SubSeq(normalized, i + 9, i + 11))

\* The regular expression is not anchored: the first place it matches wins.
msOfNormalized(normalized) ==
    LET places == {i \in 1..Len(normalized) : CanonicalAt(normalized, i)}
    IN  IF places = {} THEN 0 ELSE msOfMatch(normalized, Least(places))

timestampToMs(timestamp) == msOfNormalized(normalizeTimestamp(timestamp))

msToTimestamp(totalMs0) ==
    LET totalMs == IF totalMs0 < 0 THEN 0 ELSE totalMs0
        ms == totalMs % 1000
        totalSeconds == totalMs \div 1000
        seconds == totalSeconds % 60
        totalMinutes == totalSeconds \div 60
        minutes == totalMinutes % 60
        hours == totalMinutes \div 60
    IN  padStart(NatToStr(hours), 2, "0") \o <<":">>
            \o padStart(NatToStr(minutes), 2, "0") \o <<":">>
            \o padStart(NatToStr(seconds), 2, "0") \o <<",">>
            \o padStart(NatToStr(ms), 3, "0")

(***************************************************************************)
(* utils/srtUtils.ts: the parsers.  An entry is a record with the fields   *)
(* of SrtEntryData; a collection is a sequence of entries.                 *)
(***************************************************************************)
SrtEntryData(index, startTime, endTime, text) ==
    [index |-> index, startTime |-> startTime, endTime |-> endTime,
     text |-> text]

\* The length of the run of whitespace that starts at place i of s.
RECURSIVE WhitespaceRun(_, _)
WhitespaceRun(s, i) ==
    IF i <= Len(s) /\ s[i] \in Whitespace THEN 1 + WhitespaceRun(s, i + 1)
    ELSE 0

\* s.split(/\r?\n\s*\r?\n/): a separator starts at a line break (with the
\* carriage return before it) and runs to the last line break of the
\* whitespace that follows, when there is one.
RECURSIVE splitBlocksFrom(_, _)
RECURSIVE splitBlocksAt(_, _, _)
splitBlocksAt(s, i, later) ==
    IF later = {} THEN splitBlocksFrom(s, i + 1)
    ELSE <<SubSeq(s, 1, (IF i > 1 /\ s[i - 1] = "\r" THEN i - 1 ELSE i) - 1)>>
             \o splitBlocksFrom(SubSeq(s, Greatest(later) + 1, Len(s)), 1)

splitBlocksFrom(s, i) ==
    IF i > Len(s) THEN <<s>>
    ELSE IF s[i] # "\n" THEN splitBlocksFrom(s, i + 1)
    ELSE splitBlocksAt(s, i,
             {j \in (i + 1)..(i + WhitespaceRun(s, i) - 1) : s[j] = "\n"})

splitBlocks(s) == splitBlocksFrom(s, 1)

\* s.split(/\r?\n/)
stripCr(line) ==
    IF line # <<>> /\ line[Len(line)] = "\r"
    THEN SubSeq(line, 1, Len(line) - 1) ELSE line

stripCrs(raw) ==
    [i \in 1..Len(raw) |-> IF i < Len(raw) THEN stripCr(raw[i]) ELSE raw[i]]

splitLines(s) == stripCrs(split(s, "\n"))

\* The first place of s where "-->" starts, 0 when there is none.
ArrowAt(s) ==
    LET places == {i \in 1..(Len(s) - 2) :
                       s[i] = "-" /\ s[i + 1] = "-" /\ s[i + 2] = ">"}
    IN  IF places = {} THEN 0 ELSE Least(places)

timeMatchAt(line, a) ==
    IF a = 0 THEN [matched |-> FALSE, start |-> <<>>, end |-> <<>>]
    ELSE [matched |-> TRUE,
          start |-> trimEnd(SubSeq(line, 1, a - 1)),
          end |-> trimStart(SubSeq(line, a + 3, Len(line)))]

\* line.match(/(.*?)\s*-->\s*(.*)/): group 1 is what precedes the first
\* arrow without the whitespace before the arrow, group 2 what follows the
\* arrow after its leading whitespace.
timeMatch(line) == timeMatchAt(line, ArrowAt(line))

\* A variant that keeps a block whose first line is not a number, numbered 0.
srtEntryOfUnnumbered(lines, index, tm) ==
    IF ~tm.matched THEN <<>>
    ELSE <<SrtEntryData(IF index.nan THEN 0 ELSE index.val,
                        normalizeTimestamp(tm.start),
                        normalizeTimestamp(tm.end),
                        join(SubSeq(lines, 3, Len(lines)), <<"\n">>))>>

\* The entry of a block of at least two lines, if its first line is a
\* number and its second line a time line.
srtEntryOf(lines, index, tm) ==
    IF index.nan \/ ~tm.matched THEN <<>>
    ELSE <<SrtEntryData(index.val, normalizeTimestamp(tm.start),
                        normalizeTimestamp(tm.end),
                        join(SubSeq(lines, 3, Len(lines)), <<"\n">>))>>

parseSrtBlock(lines) ==
    IF Len(lines) < 2 THEN <<>>
    ELSE srtEntryOf(lines, parseInt(lines[1]), timeMatch(lines[2]))

RECURSIVE parseSrtBlocks(_)
parseSrtBlocks(blocks) ==
    IF blocks = <<>> THEN <<>>
    ELSE parseSrtBlock(splitLines(trim(Head(blocks))))
             \o parseSrtBlocks(Tail(blocks))

parseSrt(srtContent) ==
    IF srtContent = <<>> THEN <<>>
    ELSE parseSrtBlocks(splitBlocks(trim(srtContent)))

\* Whether s starts with the characters of prefix.
StartsWith(s, prefix) ==
    Len(s) >= Len(prefix) /\ SubSeq(s, 1, Len(prefix)) = prefix

WebVttHeader == <<"W", "E", "B", "V", "T", "T">>

\* s.replace(/^WEBVTT\s*/, '')
stripVttHeader(s) ==
    IF StartsWith(s, WebVttHeader)
    THEN trimStart(SubSeq(s, Len(WebVttHeader) + 1, Len(s))) ELSE s

\* The longest prefix of s without whitespace.
RECURSIVE NonWhitespacePrefix(_)
NonWhitespacePrefix(s) ==
    IF s = <<>> \/ Head(s) \in Whitespace THEN <<>>
    ELSE <<Head(s)>> \o NonWhitespacePrefix(Tail(s))

vttTimeMatchOf(tm) ==
    [matched |-> tm.matched, start |-> tm.start,
     end |-> NonWhitespacePrefix(tm.end)]

\* line.match(/(.*?)\s*-->\s*(.*?)(?:\s+.*)?$/): as timeMatch, with group 2
\* ending at the first whitespace after it (the cue settings are dropped).
vttTimeMatch(line) == vttTimeMatchOf(timeMatch(line))

\* The entry of a block, if its first line is a time line.
vttEntryOf(lines, tm, entryIndex) ==
    IF tm.matched
    THEN <<SrtEntryData(entryIndex, normalizeTimestamp(tm.start),
                        normalizeTimestamp(tm.end),
                        join(SubSeq(lines, 2, Len(lines)), <<"\n">>))>>
    ELSE <<>>

parseVttBlock(lines, entryIndex) ==
    vttEntryOf(lines, vttTimeMatch(lines[1]), entryIndex)

RECURSIVE parseVttBlocks(_, _)
\* A variant that counts every block, whether it gave an entry or not.
parseVttRestCounting(found, blocks, entryIndex) ==
    found \o parseVttBlocks(blocks, entryIndex + 1)

\* entryIndex++ when the block gave an entry.
parseVttRest(found, blocks, entryIndex) ==
    found \o parseVttBlocks(blocks, entryIndex + Len(found))

parseVttBlocks(blocks, entryIndex) ==
    IF blocks = <<>> THEN <<>>
    ELSE parseVttRest(parseVttBlock(splitLines(trim(Head(blocks))), entryIndex),
                      Tail(blocks), entryIndex)

parseVtt(vttContent) ==
    IF vttContent = <<>> THEN <<>>
    ELSE parseVttBlocks(splitBlocks(stripVttHeader(trim(vttContent))), 1)

\* Whether /\[(\d{2}:\d{2}\.\d{2})\]/ matches s at the 1-based place i.
LrcTagAt(s, i) ==
    /\ i + 9 <= Len(s)
    /\ s[i] = "[" /\ s[i + 3] = ":" /\ s[i + 6] = "." /\ s[i + 9] = "]"
    /\ \A j \in {1, 2, 4, 5, 7, 8} : s[i + j] \in Digits

\* lrcTimestamp.match(/(\d{2}):(\d{2})\.(\d{2})/) on the text of a tag.
lrcTimestampToMs(lrcTimestamp) ==
    (parseIntOr0(SubSeq(lrcTimestamp, 1, 2)) * 60
         + parseIntOr0(SubSeq(lrcTimestamp, 4, 5))) * 1000
        + parseIntOr0(SubSeq(lrcTimestamp, 7, 8)) * 10

\* The timed line of a line whose first tag is at place i with the text
\* after it, if the text is not empty.
lrcTimedLine(line, i, text) ==
    IF text = <<>> THEN <<>>
    ELSE <<[timeMs |-> lrcTimestampToMs(SubSeq(line, i + 1, i + 8)),
            text |-> text]>>

lrcLineAt(line, i) ==
    lrcTimedLine(line, i, trim(SubSeq(line, i + 10, Len(line))))

lrcLineOf(line, places) ==
    IF places = {} THEN <<>> ELSE lrcLineAt(line, Least(places))

\* The timed lines of an LRC file: the lines that carry a tag and a text.
RECURSIVE lrcTimedLines(_)
lrcTimedLines(lines) ==
    IF lines = <<>> THEN <<>>
    ELSE lrcLineOf(Head(lines),
                   {i \in 1..Len(Head(lines)) : LrcTagAt(Head(lines), i)})
             \o lrcTimedLines(Tail(lines))

LrcLastDurationMs == 3000

\* A variant of lrcEntries that ends every entry LrcLastDurationMs after its
\* start; C20_LrcEntries tells it from lrcEntries.
lrcEntriesFixedDuration(timedLines) ==
    [i \in 1..Len(timedLines) |->
        SrtEntryData(i, msToTimestamp(timedLines[i].timeMs),
                     msToTimestamp(timedLines[i].timeMs + LrcLastDurationMs),
                     timedLines[i].text)]

lrcEntries(timedLines) ==
    [i \in 1..Len(timedLines) |->
        SrtEntryData(i, msToTimestamp(timedLines[i].timeMs),
                     msToTimestamp(IF i < Len(timedLines)
                                   THEN timedLines[i + 1].timeMs
                                   ELSE timedLines[i].timeMs + LrcLastDurationMs),
                     timedLines[i].text)]

parseLrc(lrcContent) ==
    IF lrcContent = <<>> THEN <<>>
    ELSE lrcEntries(lrcTimedLines(splitLines(trim(lrcContent))))

(***************************************************************************)
(* utils/srtUtils.ts: serializeSrt.                                        *)
(***************************************************************************)
Crlf == <<"\r", "\n">>

\* text.replace(/\r?\n/g, '\r\n'): every line break that has no carriage
\* return before it gets one.
RECURSIVE withCrlfFrom(_, _)
withCrlfFrom(text, i) ==
    IF i > Len(text) THEN <<>>
    ELSE (IF text[i] = "\n" /\ (i = 1 \/ text[i - 1] # "\r")
          THEN Crlf ELSE <<text[i]>>)
             \o withCrlfFrom(text, i + 1)

textWithCrlf(text) == withCrlfFrom(text, 1)

\* The block of the entry at array place i (0-based).
serializeSrtEntry(entry, i) ==
    NatToStr(i + 1) \o Crlf
        \o normalizeTimestamp(entry.startTime)
        \o <<" ", "-", "-", ">", " ">>
        \o normalizeTimestamp(entry.endTime) \o Crlf
        \o textWithCrlf(entry.text)

serializeSrt(entries) ==
    join([k \in 1..Len(entries) |-> serializeSrtEntry(entries[k], k - 1)],
         Crlf \o Crlf)

(***************************************************************************)
(* utils/srtUtils.ts: srtToVtt.                                            *)
(***************************************************************************)
\* line.replace(/,(\d{3})/g, '.$1'): every comma that three digits follow
\* becomes a period; the search goes on after the digits.
RECURSIVE commasToPeriodsFrom(_, _)
commasToPeriodsFrom(line, i) ==
    IF i > Len(line) THEN <<>>
    ELSE IF /\ line[i] = ","
            /\ i + 3 <= Len(line)
            /\ \A j \in 1..3 : line[i + j] \in Digits
    THEN <<".">> \o SubSeq(line, i + 1, i + 3)
             \o commasToPeriodsFrom(line, i + 4)
    ELSE <<line[i]>> \o commasToPeriodsFrom(line, i + 1)

commasToPeriods(line) == commasToPeriodsFrom(line, 1)

CueSettings ==
    <<" ", "l", "i", "n", "e", ":", "4", "5", "%", " ",
      "p", "o", "s", "i", "t", "i", "o", "n", ":", "5", "0", "%", " ",
      "a", "l", "i", "g", "n", ":", "m", "i", "d", "d", "l", "e", " ",
      "s", "i", "z", "e", ":", "8", "0", "%">>

\* The cue of a block whose time line is at place timestampIndex (from 1),
\* or nothing when it has none.
vttCueOf(lines, timestampIndex) ==
    IF timestampIndex = 0 THEN <<>>
    ELSE commasToPeriods(lines[timestampIndex]) \o CueSettings \o <<"\n">>
             \o join(SubSeq(lines, timestampIndex + 1, Len(lines)), <<"\n">>)

\* lines.findIndex(line => line.includes('-->')), from 1, 0 when none.
timestampIndexOf(lines) ==
    LET places == {i \in 1..Len(lines) : ArrowAt(lines[i]) # 0}
    IN  IF places = {} THEN 0 ELSE Least(places)

vttBlockOf(lines) ==
    IF Len(lines) < 2 THEN <<>> ELSE vttCueOf(lines, timestampIndexOf(lines))

vttBlocksOf(blocks) ==
    [i \in 1..Len(blocks) |-> vttBlockOf(splitLines(blocks[i]))]

srtToVtt(srtContent) ==
    IF srtContent = <<>> THEN WebVttHeader
    ELSE WebVttHeader \o <<"\n", "\n">>
             \o join(filterNonEmpty(vttBlocksOf(splitBlocks(trim(srtContent)))),
                     <<"\n", "\n">>)
(***************************************************************************)
(* App.tsx, useHistoryState: the snapshots and the cursor.  currentIndex   *)
(* is 0-based as in the code, so the current state is                      *)
(* history[currentIndex + 1].  JSON.stringify of two collections is equal  *)
(* exactly when the collections are: every updater keeps the key order of  *)
(* the entries it copies.                                                  *)
(***************************************************************************)
HistoryOf(h, ci) == [history |-> h, currentIndex |-> ci]

stateOf(h, ci) == h[ci + 1]

\* A variant of setState that records the new state even when it is the
\* current one.
setStateAlways(h, ci, nextState) ==
    LET newHistory == Append(SubSeq(h, 1, ci + 1), nextState)
    IN  HistoryOf(newHistory, Len(newHistory) - 1)

setState(h, ci, nextState) ==
    IF nextState = stateOf(h, ci) THEN HistoryOf(h, ci)
    ELSE LET newHistory == Append(SubSeq(h, 1, ci + 1), nextState)
         IN  HistoryOf(newHistory, Len(newHistory) - 1)

undoOf(h, ci) == IF ci > 0 THEN HistoryOf(h, ci - 1) ELSE HistoryOf(h, ci)

redoOf(h, ci) ==
    IF ci < Len(h) - 1 THEN HistoryOf(h, ci + 1) ELSE HistoryOf(h, ci)

\* A variant of resetState that pushes onto the initial snapshot instead of
\* replacing the history; C6_ReplaceResetsHistory tells it from resetState.
resetStatePushing(newState) == HistoryOf(<<<<>>, newState>>, 1)

resetState(newState) == HistoryOf(<<newState>>, 0)

(***************************************************************************)
(* The updaters the handlers hand to setSrtEntries, as functions of the    *)
(* current entries.                                                        *)
(***************************************************************************)
NewSubtitleText ==
    <<"N", "e", "w", " ", "s", "u", "b", "t", "i", "t", "l", "e">>

\* x || '00:00:00,000'
OrZeroTimestamp(ts) == IF ts = <<>> THEN ZeroTimestamp ELSE ts

\* entries.map((e, i) => ({ ...e, index: i + 1 }))
reindex(entries) ==
    [i \in 1..Len(entries) |-> [entries[i] EXCEPT !.index = i]]

\* entries.findIndex(e => e.index === index), 1-based, 0 when there is none.
findIndex(entries, index) ==
    LET places == {i \in 1..Len(entries) : entries[i].index = index}
    IN  IF places = {} THEN 0 ELSE Least(places)

\* The array with item put in before the 1-based place at.
insertAt(entries, at, item) ==
    SubSeq(entries, 1, at - 1) \o <<item>> \o SubSeq(entries, at, Len(entries))

\* The array without the item at the 1-based place at.
removeAt(entries, at) ==
    SubSeq(entries, 1, at - 1) \o SubSeq(entries, at + 1, Len(entries))

handleAddLine(currentEntries) ==
    LET newIndex == Len(currentEntries) + 1
        lastEnd == IF currentEntries = <<>> THEN ZeroTimestamp
                   ELSE OrZeroTimestamp(currentEntries[Len(currentEntries)].endTime)
    IN  Append(currentEntries,
               SrtEntryData(newIndex, lastEnd, lastEnd, NewSubtitleText))

offsetEntry(entry, diff) ==
    [entry EXCEPT
        !.startTime = msToTimestamp(timestampToMs(entry.startTime) + diff),
        !.endTime = msToTimestamp(timestampToMs(entry.endTime) + diff)]

handleOffsetChange(currentEntries, diff) ==
    [i \in 1..Len(currentEntries) |-> offsetEntry(currentEntries[i], diff)]

\* A variant that never caps the end time.
cappedEndTimeMsUncapped(currentEntries, i, diff, finalEndTimeMs) ==
    finalEndTimeMs

\* Cap the end time at the start of the next entry, when the padding
\* increases and there is a next entry.
cappedEndTimeMs(currentEntries, i, diff, finalEndTimeMs) ==
    IF diff > 0 /\ i < Len(currentEntries)
    THEN MinOf(finalEndTimeMs, timestampToMs(currentEntries[i + 1].startTime))
    ELSE finalEndTimeMs

\* Ensure end time doesn't precede start time.
padEntry(currentEntries, i, diff) ==
    [currentEntries[i] EXCEPT
        !.endTime = msToTimestamp(cappedEndTimeMs(currentEntries, i, diff,
                        MaxOf(timestampToMs(currentEntries[i].startTime),
                              timestampToMs(currentEntries[i].endTime) + diff)))]

handleEndTimePaddingChange(currentEntries, diff) ==
    [i \in 1..Len(currentEntries) |-> padEntry(currentEntries, i, diff)]

\* Constraint 2 of the start field: no overlap with the next entry; the
\* start is not after the capped end.
setStartCapped(currentEntries, at, newStartTimeMs, newEndTimeMs) ==
    IF at < Len(currentEntries)
    THEN [currentEntries EXCEPT
             ![at].startTime = msToTimestamp(MinOf(newStartTimeMs, newEndTimeMs)),
             ![at].endTime = msToTimestamp(newEndTimeMs)]
    ELSE [currentEntries EXCEPT
             ![at].startTime = msToTimestamp(newStartTimeMs),
             ![at].endTime = msToTimestamp(newEndTimeMs)]

setStartFrom(currentEntries, at, newStartTimeMs, durationMs) ==
    setStartCapped(currentEntries, at, newStartTimeMs,
        IF at < Len(currentEntries)
        THEN MinOf(newStartTimeMs + durationMs,
                   timestampToMs(currentEntries[at + 1].startTime))
        ELSE newStartTimeMs + durationMs)

\* Constraint 1 of the start field: no overlap with the previous entry.
setStartTime(currentEntries, at, currentTimeMs) ==
    setStartFrom(currentEntries, at,
        IF at > 1
        THEN MaxOf(currentTimeMs, timestampToMs(currentEntries[at - 1].endTime))
        ELSE currentTimeMs,
        MaxOf(0, timestampToMs(currentEntries[at].endTime)
                     - timestampToMs(currentEntries[at].startTime)))

setEndCapped(currentEntries, at, newEndTimeMs) ==
    [currentEntries EXCEPT
        ![at].endTime = msToTimestamp(
            IF at < Len(currentEntries)
            THEN MinOf(newEndTimeMs,
                       timestampToMs(currentEntries[at + 1].startTime))
            ELSE newEndTimeMs)]

\* The end field: not before the start, no overlap with the next entry.
setEndTime(currentEntries, at, currentTimeMs) ==
    setEndCapped(currentEntries, at,
        MaxOf(currentTimeMs, timestampToMs(currentEntries[at].startTime)))

setTimeAt(currentEntries, at, field, currentTimeMs) ==
    IF at = 0 THEN currentEntries
    ELSE IF field = "startTime"
    THEN setStartTime(currentEntries, at, currentTimeMs)
    ELSE setEndTime(currentEntries, at, currentTimeMs)

handleSetTimeToCurrent(currentEntries, entryIndex, field, currentTimeMs) ==
    setTimeAt(currentEntries, findIndex(currentEntries, entryIndex), field,
              currentTimeMs)

(***************************************************************************)
(* components/SrtDisplay.tsx: the updaters of the entry list.              *)
(***************************************************************************)
handleUpdate(currentEntries, index, field, value) ==
    [i \in 1..Len(currentEntries) |->
        IF currentEntries[i].index = index
        THEN [currentEntries[i] EXCEPT ![field] = value]
        ELSE currentEntries[i]]

\* Array.prototype.filter(e => e.index !== index)
RECURSIVE withoutIndex(_, _)
withoutIndex(entries, index) ==
    IF entries = <<>> THEN <<>>
    ELSE (IF Head(entries).index # index THEN <<Head(entries)>> ELSE <<>>)
             \o withoutIndex(Tail(entries), index)

handleDelete(currentEntries, index) ==
    reindex(withoutIndex(currentEntries, index))

swapAt(currentEntries, arrayIndex, targetIndex) ==
    IF arrayIndex = 0 THEN currentEntries
    ELSE IF targetIndex >= 1 /\ targetIndex <= Len(currentEntries)
    THEN reindex([currentEntries EXCEPT
                     ![arrayIndex] = currentEntries[targetIndex],
                     ![targetIndex] = currentEntries[arrayIndex]])
    ELSE currentEntries

moveAt(currentEntries, arrayIndex, direction) ==
    swapAt(currentEntries, arrayIndex,
           IF direction = "up" THEN arrayIndex - 1 ELSE arrayIndex + 1)

handleMove(currentEntries, originalIndex, direction) ==
    moveAt(currentEntries, findIndex(currentEntries, originalIndex), direction)

\* A variant of insertAfter whose new entry takes the start of the entry
\* before it; C23_InsertAfter tells it from insertAfter.
insertAfterAtStart(currentEntries, insertAtIndex) ==
    IF insertAtIndex = 0 THEN currentEntries
    ELSE reindex(insertAt(currentEntries, insertAtIndex + 1,
                     SrtEntryData(0, currentEntries[insertAtIndex].startTime,
                                  currentEntries[insertAtIndex].startTime,
                                  NewSubtitleText)))

insertAfter(currentEntries, insertAtIndex) ==
    IF insertAtIndex = 0 THEN currentEntries
    ELSE reindex(insertAt(currentEntries, insertAtIndex + 1,
                     SrtEntryData(0, currentEntries[insertAtIndex].endTime,
                                  currentEntries[insertAtIndex].endTime,
                                  NewSubtitleText)))

handleInsert(currentEntries, afterIndex) ==
    insertAfter(currentEntries, findIndex(currentEntries, afterIndex))

\* A variant of mergedEntry that keeps the end of the first entry;
\* C38_SplitThenMerge tells it from mergedEntry.
mergedEntryKeepingEnd(entry1, entry2) ==
    [entry1 EXCEPT !.text = trim(entry1.text \o <<"\n">> \o entry2.text)]

mergedEntry(entry1, entry2) ==
    [entry1 EXCEPT !.endTime = entry2.endTime,
                   !.text = trim(entry1.text \o <<"\n">> \o entry2.text)]

mergeAt(currentEntries, mergeArrayIndex) ==
    IF mergeArrayIndex = 0 \/ mergeArrayIndex >= Len(currentEntries)
    THEN currentEntries
    ELSE reindex(removeAt([currentEntries EXCEPT
                              ![mergeArrayIndex] =
                                  mergedEntry(currentEntries[mergeArrayIndex],
                                              currentEntries[mergeArrayIndex + 1])],
                          mergeArrayIndex + 1))

handleMerge(currentEntries, indexToMerge) ==
    mergeAt(currentEntries, findIndex(currentEntries, indexToMerge))

\* splitAt / length is an IEEE 754 double: a 53-bit significand got by long
\* division and rounded to nearest, ties to even.  quotientShift is the s
\* with length <= splitAt * 2^s < 2 * length, for 0 < splitAt < length.
RECURSIVE pow2(_)
pow2(n) == IF n <= 0 THEN 1 ELSE 2 * pow2(n - 1)

RECURSIVE floorLog2(_)
floorLog2(n) == IF n <= 1 THEN 0 ELSE 1 + floorLog2(n \div 2)

RECURSIVE quotientShift(_, _)
quotientShift(splitAt, length) ==
    IF splitAt >= length THEN 0 ELSE 1 + quotientShift(2 * splitAt, length)

\* bits more binary digits of r / length: what is left of the dividend and
\* whether the last digit was a one.
RECURSIVE significandRest(_, _, _, _)
significandRest(r, length, bits, odd) ==
    IF bits = 0 THEN [rem |-> r, odd |-> odd]
    ELSE IF 2 * r >= length
    THEN significandRest(2 * r - length, length, bits - 1, TRUE)
    ELSE significandRest(2 * r, length, bits - 1, FALSE)

\* The double minus the true quotient, in units of 2^(-s-52) / length.
roundingError(length, m) ==
    IF 2 * m.rem > length \/ (2 * m.rem = length /\ m.odd)
    THEN length - m.rem ELSE 0 - m.rem

quotientError(splitAt, length) ==
    roundingError(length,
        significandRest(splitAt * pow2(quotientShift(splitAt, length)) - length,
                        length, 52, TRUE))

\* Whether the double durationMs * (splitAt / length) is below n + 0.5, the
\* true product: the error of the quotient, times durationMs, exceeds
\* half the distance from n + 0.5 to the double below it.  e is the
\* exponent of that distance plus quotientShift.
belowHalf(durationMs, length, err, e) ==
    /\ err < 0
    /\ 2 * durationMs * (0 - err) * pow2(0 - e) > length * pow2(e)

productBelowHalf(durationMs, splitAt, length, n) ==
    belowHalf(durationMs, length, quotientError(splitAt, length),
              (IF n = 0 THEN 0 - 2 ELSE floorLog2(n))
                  + quotientShift(splitAt, length))

\* Math.round(durationMs * (splitAt / length)) for durationMs > 0 and
\* 0 < splitAt < length.  When the true product is not a whole number and
\* a half, it is further from one than the double is from it, and
\* Math.round gives the nearest whole number; when it is, Math.round
\* rounds up unless the double fell below the half.
roundedTie(durationMs, splitAt, length, n) ==
    IF productBelowHalf(durationMs, splitAt, length, n) THEN n ELSE n + 1

roundedShare(durationMs, splitAt, length) ==
    IF (2 * durationMs * splitAt) % length = 0
           /\ ((2 * durationMs * splitAt) \div length) % 2 = 1
    THEN roundedTie(durationMs, splitAt, length,
                    (durationMs * splitAt) \div length)
    ELSE (2 * durationMs * splitAt + length) \div (2 * length)

splitTimeMs(startTimeMs, endTimeMs, splitAt, length) ==
    IF endTimeMs - startTimeMs > 0
    THEN startTimeMs + roundedShare(endTimeMs - startTimeMs, splitAt, length)
    ELSE startTimeMs

\* The two entries in the place of the original one.
splitInto(currentEntries, arrayIndex, text1, text2, splitTime) ==
    reindex(insertAt([currentEntries EXCEPT
                         ![arrayIndex].endTime = splitTime,
                         ![arrayIndex].text = text1],
                     arrayIndex + 1,
                     SrtEntryData(0, splitTime,
                                  currentEntries[arrayIndex].endTime, text2)))

\* A variant of splitTexts that splits whatever the halves are;
\* C22_SplitRefusedOrGrows tells it from splitTexts.
splitTextsUnchecked(currentEntries, arrayIndex, splitAt, text1, text2) ==
    splitInto(currentEntries, arrayIndex, text1, text2,
        msToTimestamp(splitTimeMs(
            timestampToMs(currentEntries[arrayIndex].startTime),
            timestampToMs(currentEntries[arrayIndex].endTime),
            splitAt, Len(currentEntries[arrayIndex].text))))

splitTexts(currentEntries, arrayIndex, splitAt, text1, text2) ==
    IF text1 = <<>> \/ text2 = <<>> THEN currentEntries
    ELSE splitInto(currentEntries, arrayIndex, text1, text2,
             msToTimestamp(splitTimeMs(
                 timestampToMs(currentEntries[arrayIndex].startTime),
                 timestampToMs(currentEntries[arrayIndex].endTime),
                 splitAt, Len(currentEntries[arrayIndex].text))))

splitText(currentEntries, arrayIndex, splitAt, originalText) ==
    IF splitAt <= 0 \/ splitAt >= Len(originalText) THEN currentEntries
    ELSE splitTexts(currentEntries, arrayIndex, splitAt,
                    trim(substring(originalText, 0, splitAt)),
                    trim(substring(originalText, splitAt, Len(originalText))))

splitEntryAt(currentEntries, arrayIndex, splitAt) ==
    IF arrayIndex = 0 THEN currentEntries
    ELSE splitText(currentEntries, arrayIndex, splitAt,
                   currentEntries[arrayIndex].text)

handleSplit(currentEntries, indexToSplit, splitAt) ==
    splitEntryAt(currentEntries, findIndex(currentEntries, indexToSplit), splitAt)

\* draggedIndex and dropIndex are 0-based array positions.
handleDrop(currentEntries, draggedIndex, dropIndex) ==
    reindex(insertAt(removeAt(currentEntries, draggedIndex + 1),
                     dropIndex + 1, currentEntries[draggedIndex + 1]))

(***************************************************************************)
(* services/geminiService.ts.  The reply of the model is one of: the call  *)
(* throws, the text is empty, the text is not JSON, the JSON is not an     *)
(* array of entries, or the JSON is an array of entries (items).           *)
(***************************************************************************)
Failed == [ok |-> FALSE, entries |-> <<>>]

Returned(entries) == [ok |-> TRUE, entries |-> entries]

processAiResponse(reply) ==
    IF reply.kind # "json" THEN Failed
    ELSE IF reply.items = <<>> THEN Failed
    ELSE Returned([i \in 1..Len(reply.items) |->
             [reply.items[i] EXCEPT
                 !.startTime = normalizeTimestamp(reply.items[i].startTime),
                 !.endTime = normalizeTimestamp(reply.items[i].endTime)]])

generateSrtFromVideoAndLyrics(reply) ==
    IF reply.kind = "throw" THEN Failed ELSE processAiResponse(reply)

\* A variant of pairRefined without the check of the counts: it pairs as
\* many entries as both sides have; C11_MismatchIsError tells it from
\* pairRefined.
pairRefinedTruncating(currentEntries, refined) ==
    IF ~refined.ok THEN Failed
    ELSE Returned([i \in 1..MinOf(Len(currentEntries), Len(refined.entries)) |->
             [currentEntries[i] EXCEPT
                 !.startTime = refined.entries[i].startTime,
                 !.endTime = refined.entries[i].endTime]])

\* The timings of refined paired by place with the text and index of the
\* current entries, when the counts agree.
pairRefined(currentEntries, refined) ==
    IF ~refined.ok THEN Failed
    ELSE IF Len(refined.entries) # Len(currentEntries) THEN Failed
    ELSE Returned([i \in 1..Len(currentEntries) |->
             [currentEntries[i] EXCEPT
                 !.startTime = refined.entries[i].startTime,
                 !.endTime = refined.entries[i].endTime]])

\* A variant of refineSrtTimings that trusts the entries of the reply, text
\* and index included; C12_PairedByPlace tells it from refineSrtTimings.
refineSrtTimingsEchoing(currentEntries, reply) ==
    IF reply.kind = "throw" THEN Failed
    ELSE IF Len(reply.items) # Len(currentEntries) THEN Failed
    ELSE processAiResponse(reply)

refineSrtTimings(currentEntries, reply) ==
    pairRefined(currentEntries,
                IF reply.kind = "throw" THEN Failed ELSE processAiResponse(reply))

(***************************************************************************)
(* The inputs of the model.                                                *)
(***************************************************************************)
MaxEntries == 2

MaxHistory == 2

NL == <<"\n">>

Arrow == <<" ", "-", "-", ">", " ">>

SrtBlock(index, startMs, endMs, text) ==
    IntToStr(index) \o NL \o msToTimestamp(startMs) \o Arrow
        \o msToTimestamp(endMs) \o NL \o text

File(extension, content) == [extension |-> extension, content |-> content]

\* The subtitle file a previous session worked on: an SRT file whose only
\* cue is numbered 5 (an excerpt of a longer file).
DraftSource == File("srt", SrtBlock(5, 2000, 3000, <<"a", " ", "b">>) \o NL)

\* Subtitle files a user may pick: DraftSource, a VTT file whose two cues
\* are not in time
\* order, the first with cue settings, an LRC file of two lines, a file of
\* another type, an empty file and a file without any cue.
ImportFiles ==
    { DraftSource,
      File("vtt", WebVttHeader \o NL \o NL
                      \o <<"0", "0", ":", "0", "2", ".", "0", "0", "0">> \o Arrow
                      \o <<"0", "0", ":", "0", "3", ".", "0", "0", "0">>
                      \o <<" ", "a", "l", "i", "g", "n", ":", "m", "i", "d">>
                      \o NL \o <<"c">> \o NL \o NL
                      \o <<"0", "0", ":", "0", "0", ".", "0", "0", "0">> \o Arrow
                      \o <<"0", "0", ":", "0", "1", ".", "0", "0", "0">>
                      \o NL \o <<"a", " ", "b">>),
      File("lrc", <<"[", "0", "0", ":", "0", "0", ".", "5", "0", "]", "a", " ", "b">>
                      \o NL
                      \o <<"[", "0", "0", ":", "0", "1", ".", "0", "0", "]", "c">>),
      File("txt", <<"a">>),
      File("srt", <<>>),
      File("srt", <<"a">>) }

Item(index, startTime, endTime, text) ==
    SrtEntryData(index, startTime, endTime, text)

\* Entries as the model may return them for a generate: timestamps that
\* need not be canonical.
GeneratedItems ==
    << Item(1, <<"0", "0", ":", "0", "0", ":", "0", "0", ".", "2">>,
            msToTimestamp(1100), <<"a">>),
       Item(2, <<"2", ".", "2">>, msToTimestamp(3100), <<"c">>),
       Item(3, msToTimestamp(4200), msToTimestamp(5100), <<"d">>) >>

\* Entries as the model may return them for a refine: other timings (the
\* first one not canonical), and an index and a text of its own.
EchoedItems ==
    << Item(7, <<"0", ".", "1">>, msToTimestamp(900), <<"z">>),
       Item(8, msToTimestamp(2100), msToTimestamp(2900), <<"z">>),
       Item(9, msToTimestamp(4100), msToTimestamp(4900), <<"z">>) >>

Reply(kind, items) == [kind |-> kind, items |-> items]

FailureReplies ==
    {Reply(k, <<>>) : k \in {"throw", "emptyText", "unparseable", "badSchema"}}

GenerateReplies ==
    FailureReplies
        \cup {Reply("json", SubSeq(GeneratedItems, 1, n)) : n \in 0..MaxEntries}

RefineReplies ==
    FailureReplies
        \cup {Reply("json", SubSeq(EchoedItems, 1, n)) : n \in 0..MaxEntries}

OffsetValues == {0, 1000}

PaddingValues == {0, 1000}

\* videoRef.current.currentTime * 1000
PlaybackTimesMs == {2500}

TimeFields == {"startTime", "endTime"}

\* What a user may commit to a time field (normalized by SrtEntry on blur)
\* and type into a text field.
TypedTimes == {msToTimestamp(2000)}

TypedTexts == {<<"a", " ", "b">>}

\* The draft the previous session left in localStorage, if any: none, or
\* the entries of DraftSource after a refine, saved with the offset slider
\* at 1000 (the slider was moved and the move undone).
NoDraft == [entries |-> <<>>, offset |-> 0, endTimePadding |-> 0]

SavedDrafts ==
    { NoDraft,
      [entries |-> refineSrtTimings(parseSrt(DraftSource.content),
                       Reply("json", SubSeq(EchoedItems, 1, 1))).entries,
       offset |-> 1000, endTimePadding |-> 0] }

(***************************************************************************)
(* App.tsx: the state of the App component.                                *)
(***************************************************************************)
VARIABLES
    history,          \* useHistoryState: the snapshots
    currentIndex,     \* useHistoryState: the cursor, 0-based
    offset,           \* the cumulative global offset of the slider
    endTimePadding,   \* the cumulative end padding of the slider
    isLoading,        \* a generate is in progress
    isRefining,       \* a refine is in progress
    error,            \* whether a message is shown (error !== null)
    videoFile,        \* whether a media file is selected
    lyrics,           \* whether the lyrics box holds text
    draftToRestore,   \* the draft offered by the banner, or NoDraft
    pendingClear,     \* the 6 s timer of handleRestoreDraft is running
    inflight,         \* the async handlers that wait for the model
    last,             \* the handler that last called the history hook, the
                      \* collection it worked on and the one it computed
    run,              \* the slider that is being moved and the collection
                      \* seen at each value it held since the last other edit
    settled,          \* the reply the refine that settled last got, what it
                      \* worked on and what refineSrtTimings made of it
    input             \* the argument of the function under study

vars == <<history, currentIndex, offset, endTimePadding, isLoading,
          isRefining, error, videoFile, lyrics, draftToRestore,
          pendingClear, inflight, last, run, settled, input>>

srtEntries == stateOf(history, currentIndex)

canUndo == currentIndex > 0

canRedo == currentIndex < Len(history) - 1

canGenerate == videoFile /\ lyrics /\ ~isLoading /\ ~isRefining

allControlsDisabled == isRefining \/ isLoading

\* The editor (history buttons, sliders, entry list) is rendered when
\* nothing is loading, no message is shown, there are entries and a media
\* file; its controls are disabled while allControlsDisabled.
EditorEnabled ==
    /\ ~isLoading /\ ~error /\ Len(srtEntries) > 0 /\ videoFile
    /\ ~allControlsDisabled

\* The handlers that hand a collection to setSrtEntries.
MutationOps ==
    {"addLine", "setEntries", "offsetChange", "paddingChange",
     "setTimeToCurrent", "refined"}

\* A handler that ran to its end: the collection that was current when it
\* called the history hook, the collection it computed, and for a mutation
\* whether the history held a single snapshot then.
Called(op, prev, next) ==
    [op |-> op, prev |-> prev, next |-> next,
     single |-> op \in MutationOps /\ Len(history) = 1]

\* An async handler between two awaits: what it does next (step), the
\* entries it works on, and the history and cursor of the render in which
\* it was started (what the setSrtEntries of its closure works on).
Pending(kind, step, entries, h, ci) ==
    [kind |-> kind, step |-> step, entries |-> entries,
     history |-> h, currentIndex |-> ci]

NoRun == [slider |-> "none", from |-> 0, base |-> <<>>, seen |-> <<>>]

NoReply == [kind |-> "none"]

NoInput == [kind |-> "none"]

Init ==
    /\ history = <<<<>>>>
    /\ currentIndex = 0
    /\ offset = 0
    /\ endTimePadding = 0
    /\ isLoading = FALSE
    /\ isRefining = FALSE
    /\ error = FALSE
    /\ videoFile = FALSE
    /\ lyrics = FALSE
    /\ draftToRestore \in SavedDrafts
    /\ pendingClear = FALSE
    /\ inflight = {}
    /\ last = Called("mount", <<>>, <<>>)
    /\ run = NoRun
    /\ settled = NoReply
    /\ input = NoInput

\* setSrtEntries(nextState) through the closure (h, ci) of the caller: when
\* nextState is the state of the closure nothing is set, otherwise the
\* history and the cursor are set from the history of the closure.
SetSrtEntriesFrom(h, ci, nextState) ==
    LET r == setState(h, ci, nextState)
    IN  IF r = HistoryOf(h, ci)
        THEN UNCHANGED <<history, currentIndex>>
        ELSE /\ history' = r.history
             /\ currentIndex' = r.currentIndex

SetSrtEntries(nextState) == SetSrtEntriesFrom(history, currentIndex, nextState)

ResetSrtEntries(newState) ==
    LET r == resetState(newState)
    IN  /\ history' = r.history
        /\ currentIndex' = r.currentIndex

HandleFileSelect(file) ==
    /\ ~(isLoading \/ isRefining)
    /\ CASE file = "none" -> videoFile' = FALSE /\ UNCHANGED error
         [] file = "tooLarge" -> videoFile' = FALSE /\ error' = TRUE
         [] OTHER -> videoFile' = TRUE /\ error' = FALSE
    /\ UNCHANGED <<history, currentIndex, offset, endTimePadding, isLoading,
                   isRefining, lyrics, draftToRestore, pendingClear, inflight,
                   last>>

SetLyrics(text) ==
    /\ ~(isLoading \/ isRefining)
    /\ lyrics' = text
    /\ UNCHANGED <<history, currentIndex, offset, endTimePadding, isLoading,
                   isRefining, error, videoFile, draftToRestore, pendingClear,
                   inflight, last>>

(* handleGenerate up to its first await. *)
HandleGenerate ==
    /\ canGenerate
    /\ isLoading' = TRUE
    /\ error' = FALSE
    /\ ResetSrtEntries(<<>>)
    /\ offset' = 0
    /\ endTimePadding' = 0
    /\ inflight' = inflight \cup
           {Pending("generate", 1, <<>>, history, currentIndex)}
    /\ last' = Called("generate", <<>>, <<>>)
    /\ UNCHANGED <<isRefining, videoFile, lyrics, draftToRestore, pendingClear>>

(* handleGenerate after generateSrtFromVideoAndLyrics settles. *)
GenerateStep1(p, reply) ==
    LET initialSrtData == generateSrtFromVideoAndLyrics(reply)
    IN  /\ p.kind = "generate" /\ p.step = 1
        /\ IF initialSrtData.ok
           THEN /\ inflight' = (inflight \ {p}) \cup
                        {Pending("generate", 2, initialSrtData.entries,
                                 p.history, p.currentIndex)}
                /\ UNCHANGED <<isLoading, error>>
           ELSE /\ inflight' = inflight \ {p}
                /\ error' = TRUE
                /\ isLoading' = FALSE
        /\ UNCHANGED <<history, currentIndex, offset, endTimePadding,
                       isRefining, videoFile, lyrics, draftToRestore,
                       pendingClear, last>>

(* handleGenerate after refineSrtTimings settles. *)
GenerateStep2(p, reply) ==
    LET refinedSrtData == refineSrtTimings(p.entries, reply)
    IN  /\ p.kind = "generate" /\ p.step = 2
        /\ inflight' = inflight \ {p}
        /\ isLoading' = FALSE
        /\ IF refinedSrtData.ok
           THEN /\ ResetSrtEntries(refinedSrtData.entries)
                /\ last' = Called("generated", p.entries, refinedSrtData.entries)
                /\ UNCHANGED error
           ELSE /\ error' = TRUE
                /\ UNCHANGED <<history, currentIndex, last>>
        /\ UNCHANGED <<offset, endTimePadding, isRefining, videoFile, lyrics,
                       draftToRestore, pendingClear>>

(* handleRefineTimings up to its first await. *)
HandleRefineTimings ==
    /\ EditorEnabled
    /\ IF ~videoFile \/ Len(srtEntries) = 0
       THEN /\ error' = TRUE
            /\ UNCHANGED <<isRefining, inflight>>
       ELSE /\ isRefining' = TRUE
            /\ error' = FALSE
            /\ inflight' = inflight \cup
                   {Pending("refine", 1, srtEntries, history, currentIndex)}
    /\ UNCHANGED <<history, currentIndex, offset, endTimePadding, isLoading,
                   videoFile, lyrics, draftToRestore, pendingClear, last>>

(* handleRefineTimings after refineSrtTimings settles: setSrtEntries is  *)
(* the one of the render in which the handler was started.               *)
RefineSettled(p, reply) ==
    LET refinedSrtData == refineSrtTimings(p.entries, reply)
    IN  /\ p.kind = "refine"
        /\ inflight' = inflight \ {p}
        /\ isRefining' = FALSE
        /\ IF refinedSrtData.ok
           THEN /\ SetSrtEntriesFrom(p.history, p.currentIndex,
                                     refinedSrtData.entries)
                /\ offset' = 0
                /\ endTimePadding' = 0
                /\ last' = Called("refined", srtEntries, refinedSrtData.entries)
                /\ UNCHANGED error
           ELSE /\ error' = TRUE
                /\ UNCHANGED <<history, currentIndex, offset, endTimePadding,
                               last>>
        /\ UNCHANGED <<isLoading, videoFile, lyrics, draftToRestore,
                       pendingClear>>

\* A handler of the editor that hands nextState to setSrtEntries and leaves
\* the rest of the App alone.
Edit(op, nextState) ==
    /\ EditorEnabled
    /\ SetSrtEntries(nextState)
    /\ last' = Called(op, srtEntries, nextState)
    /\ UNCHANGED <<isLoading, isRefining, error, videoFile, lyrics,
                   draftToRestore, pendingClear, inflight>>

HandleAddLine ==
    /\ Edit("addLine", handleAddLine(srtEntries))
    /\ UNCHANGED <<offset, endTimePadding>>

\* A variant of HandleOffsetChange that takes the new value for the
\* difference; C10_OffsetIdempotent tells it from HandleOffsetChange.
HandleOffsetChangeAbsolute(newOffsetValue) ==
    LET diff == newOffsetValue
    IN  IF diff = 0
        THEN /\ EditorEnabled
             /\ last' = Called("offsetChange", srtEntries, srtEntries)
             /\ UNCHANGED <<history, currentIndex, offset, endTimePadding,
                            isLoading, isRefining, error, videoFile, lyrics,
                            draftToRestore, pendingClear, inflight>>
        ELSE /\ Edit("offsetChange",
                     handleOffsetChange(srtEntries, diff))
             /\ offset' = newOffsetValue
             /\ UNCHANGED endTimePadding

HandleOffsetChange(newOffsetValue) ==
    LET diff == newOffsetValue - offset
    IN  IF diff = 0
        THEN /\ EditorEnabled
             /\ last' = Called("offsetChange", srtEntries, srtEntries)
             /\ UNCHANGED <<history, currentIndex, offset, endTimePadding,
                            isLoading, isRefining, error, videoFile, lyrics,
                            draftToRestore, pendingClear, inflight>>
        ELSE /\ Edit("offsetChange",
                     handleOffsetChange(srtEntries, diff))
             /\ offset' = newOffsetValue
             /\ UNCHANGED endTimePadding

HandleEndTimePaddingChange(newPadding) ==
    LET diff == newPadding - endTimePadding
    IN  IF diff = 0
        THEN /\ EditorEnabled
             /\ last' = Called("paddingChange", srtEntries, srtEntries)
             /\ UNCHANGED <<history, currentIndex, offset, endTimePadding,
                            isLoading, isRefining, error, videoFile, lyrics,
                            draftToRestore, pendingClear, inflight>>
        ELSE /\ Edit("paddingChange",
                     handleEndTimePaddingChange(srtEntries, diff))
             /\ endTimePadding' = newPadding
             /\ UNCHANGED offset

HandleSetTimeToCurrent(entryIndex, field, currentTimeMs) ==
    /\ Edit("setTimeToCurrent",
            handleSetTimeToCurrent(srtEntries, entryIndex, field, currentTimeMs))
    /\ UNCHANGED <<offset, endTimePadding>>

\* A variant of Undo that also puts the offset slider back to 0.
UndoResettingOffset ==
    LET r == undoOf(history, currentIndex)
    IN  /\ EditorEnabled /\ canUndo
        /\ history' = r.history
        /\ currentIndex' = r.currentIndex
        /\ offset' = 0
        /\ last' = Called("undo", srtEntries, stateOf(r.history, r.currentIndex))
        /\ UNCHANGED <<endTimePadding, isLoading, isRefining, error,
                       videoFile, lyrics, draftToRestore, pendingClear, inflight>>

Undo ==
    LET r == undoOf(history, currentIndex)
    IN  /\ EditorEnabled /\ canUndo
        /\ history' = r.history
        /\ currentIndex' = r.currentIndex
        /\ last' = Called("undo", srtEntries, stateOf(r.history, r.currentIndex))
        /\ UNCHANGED <<offset, endTimePadding, isLoading, isRefining, error,
                       videoFile, lyrics, draftToRestore, pendingClear, inflight>>

Redo ==
    LET r == redoOf(history, currentIndex)
    IN  /\ EditorEnabled /\ canRedo
        /\ history' = r.history
        /\ currentIndex' = r.currentIndex
        /\ last' = Called("redo", srtEntries, stateOf(r.history, r.currentIndex))
        /\ UNCHANGED <<offset, endTimePadding, isLoading, isRefining, error,
                       videoFile, lyrics, draftToRestore, pendingClear, inflight>>

HandleUpdate(index, field, value) ==
    /\ Edit("setEntries", handleUpdate(srtEntries, index, field, value))
    /\ UNCHANGED <<offset, endTimePadding>>

HandleDelete(index) ==
    /\ Edit("setEntries", handleDelete(srtEntries, index))
    /\ UNCHANGED <<offset, endTimePadding>>

HandleMove(originalIndex, direction) ==
    /\ Edit("setEntries", handleMove(srtEntries, originalIndex, direction))
    /\ UNCHANGED <<offset, endTimePadding>>

HandleInsert(afterIndex) ==
    /\ Edit("setEntries", handleInsert(srtEntries, afterIndex))
    /\ UNCHANGED <<offset, endTimePadding>>

HandleMerge(indexToMerge) ==
    /\ Edit("setEntries", handleMerge(srtEntries, indexToMerge))
    /\ UNCHANGED <<offset, endTimePadding>>

HandleSplit(indexToSplit, splitAt) ==
    /\ Edit("setEntries", handleSplit(srtEntries, indexToSplit, splitAt))
    /\ UNCHANGED <<offset, endTimePadding>>

HandleDrop(draggedIndex, dropIndex) ==
    /\ Edit("setEntries", handleDrop(srtEntries, draggedIndex, dropIndex))
    /\ UNCHANGED <<offset, endTimePadding>>

HandleRestoreDraft ==
    /\ draftToRestore # NoDraft
    /\ ResetSrtEntries(draftToRestore.entries)
    /\ offset' = draftToRestore.offset
    /\ endTimePadding' = draftToRestore.endTimePadding
    /\ error' = TRUE
    /\ pendingClear' = TRUE
    /\ draftToRestore' = NoDraft
    /\ last' = Called("restoreDraft", <<>>, draftToRestore.entries)
    /\ UNCHANGED <<isLoading, isRefining, videoFile, lyrics, inflight>>

HandleDismissDraft ==
    /\ draftToRestore # NoDraft
    /\ draftToRestore' = NoDraft
    /\ UNCHANGED <<history, currentIndex, offset, endTimePadding, isLoading,
                   isRefining, error, videoFile, lyrics, pendingClear, inflight,
                   last>>

(* setTimeout(() => setError(null), 6000) of handleRestoreDraft. *)
ClearMessage ==
    /\ pendingClear
    /\ pendingClear' = FALSE
    /\ error' = FALSE
    /\ UNCHANGED <<history, currentIndex, offset, endTimePadding, isLoading,
                   isRefining, videoFile, lyrics, draftToRestore, inflight,
                   last>>

parseByExtension(file) ==
    CASE file.extension = "srt" -> parseSrt(file.content)
      [] file.extension = "vtt" -> parseVtt(file.content)
      [] file.extension = "lrc" -> parseLrc(file.content)
      [] OTHER -> <<>>

\* What each file of ImportFiles parses to.
ParsedImports == {[file |-> f, entries |-> parseByExtension(f)] : f \in ImportFiles}

\* A variant of HandleImportSubtitles that puts the sliders back to 0
\* before it looks at the file.
HandleImportSubtitlesClearing(import) ==
    LET parsedEntries == import.entries
        rejected == \/ import.file.content = <<>>
                    \/ import.file.extension \notin {"srt", "vtt", "lrc"}
                    \/ Len(parsedEntries) = 0
    IN  /\ ~(isLoading \/ isRefining)
        /\ offset' = 0
        /\ endTimePadding' = 0
        /\ IF rejected
           THEN /\ error' = TRUE
                /\ UNCHANGED <<history, currentIndex, lyrics, last>>
           ELSE /\ error' = FALSE
                /\ lyrics' = FALSE
                /\ ResetSrtEntries(parsedEntries)
                /\ last' = Called("imported", <<>>, parsedEntries)
        /\ UNCHANGED <<isLoading, isRefining, videoFile, draftToRestore,
                       pendingClear, inflight>>

(* handleImportSubtitles with the read of the file: reader.onload. *)
HandleImportSubtitles(import) ==
    LET parsedEntries == import.entries
        rejected == \/ import.file.content = <<>>
                    \/ import.file.extension \notin {"srt", "vtt", "lrc"}
                    \/ Len(parsedEntries) = 0
    IN  /\ ~(isLoading \/ isRefining)
        /\ IF rejected
           THEN /\ error' = TRUE
                /\ UNCHANGED <<history, currentIndex, offset, endTimePadding,
                               lyrics, last>>
           ELSE /\ error' = FALSE
                /\ lyrics' = FALSE
                /\ ResetSrtEntries(parsedEntries)
                /\ offset' = 0
                /\ endTimePadding' = 0
                /\ last' = Called("imported", <<>>, parsedEntries)
        /\ UNCHANGED <<isLoading, isRefining, videoFile, draftToRestore,
                       pendingClear, inflight>>

Indices == {srtEntries[i].index : i \in 1..Len(srtEntries)}

Positions == 0..(Len(srtEntries) - 1)

\* The handlers of the App, each with the inputs a user, the timer or the
\* model may give it.
FileSelected == \E file \in {"none", "tooLarge", "ok"} : HandleFileSelect(file)

LyricsTyped == \E text \in BOOLEAN : SetLyrics(text)

GenerateReplied ==
    \E p \in inflight, reply \in GenerateReplies : GenerateStep1(p, reply)

GenerateRefined ==
    \E p \in inflight, reply \in RefineReplies : GenerateStep2(p, reply)

RefineReplied ==
    \E p \in inflight, reply \in RefineReplies : RefineSettled(p, reply)

OffsetMoved == \E v \in OffsetValues : HandleOffsetChange(v)

PaddingMoved == \E v \in PaddingValues : HandleEndTimePaddingChange(v)

TimeSetToCurrent ==
    \E index \in Indices, field \in TimeFields, t \in PlaybackTimesMs :
        HandleSetTimeToCurrent(index, field, t)

TimeTyped ==
    \E index \in Indices, field \in TimeFields, value \in TypedTimes :
        HandleUpdate(index, field, value)

TextTyped ==
    \E index \in Indices, value \in TypedTexts :
        HandleUpdate(index, "text", value)

Deleted == \E index \in Indices : HandleDelete(index)

Moved ==
    \E index \in Indices, direction \in {"up", "down"} :
        HandleMove(index, direction)

Inserted == \E index \in Indices : HandleInsert(index)

Merged == \E index \in Indices : HandleMerge(index)

SplitDone ==
    \E i \in 1..Len(srtEntries) :
        \E splitAt \in 0..Len(srtEntries[i].text) :
            HandleSplit(srtEntries[i].index, splitAt)

Dropped ==
    \E draggedIndex \in Positions, dropIndex \in Positions :
        HandleDrop(draggedIndex, dropIndex)

Imported == \E import \in ParsedImports : HandleImportSubtitles(import)

\* The model explores histories of at most MaxHistory snapshots of at most
\* MaxEntries entries.
Bounded ==
    /\ Len(history) <= MaxHistory
    /\ \A i \in 1..Len(history) : Len(history[i]) <= MaxEntries

InApp == Bounded' /\ UNCHANGED <<run, settled, input>>

Next ==
    \/ FileSelected /\ InApp
    \/ LyricsTyped /\ InApp
    \/ HandleGenerate /\ InApp
    \/ GenerateReplied /\ InApp
    \/ GenerateRefined /\ InApp
    \/ HandleRefineTimings /\ InApp
    \/ RefineReplied /\ InApp
    \/ HandleAddLine /\ InApp
    \/ OffsetMoved /\ InApp
    \/ PaddingMoved /\ InApp
    \/ TimeSetToCurrent /\ InApp
    \/ Undo /\ InApp
    \/ Redo /\ InApp
    \/ TimeTyped /\ InApp
    \/ TextTyped /\ InApp
    \/ Deleted /\ InApp
    \/ Moved /\ InApp
    \/ Inserted /\ InApp
    \/ Merged /\ InApp
    \/ SplitDone /\ InApp
    \/ Dropped /\ InApp
    \/ HandleRestoreDraft /\ InApp
    \/ HandleDismissDraft /\ InApp
    \/ ClearMessage /\ InApp
    \/ Imported /\ InApp

Spec == Init /\ [][Next]_vars

(***************************************************************************)
(* The two sliders on their own: the editor right after an import, and     *)
(* sequences of slider moves from there.                                   *)
(***************************************************************************)
MaxMoves == 4

SliderValues == {-1000, 0, 1000}

SliderValue(slider) == IF slider = "offset" THEN offset ELSE endTimePadding

\* What a move of the slider makes of run: the first move after another
\* edit starts a new sequence, with the value and the collection it
\* starts from (from, base); every move notes the collection at the value
\* the slider leaves.
Noted(slider) ==
    LET leaves == SliderValue(slider)
    IN  IF run.slider = slider
        THEN [run EXCEPT !.seen = (leaves :> srtEntries) @@ run.seen]
        ELSE [slider |-> slider, from |-> leaves, base |-> srtEntries,
              seen |-> (leaves :> srtEntries)]

InitTiming ==
    /\ \E import \in ParsedImports :
           /\ Len(import.entries) > 0
           /\ history = <<import.entries>>
           /\ last = Called("imported", <<>>, import.entries)
    /\ currentIndex = 0
    /\ offset = 0
    /\ endTimePadding = 0
    /\ isLoading = FALSE
    /\ isRefining = FALSE
    /\ error = FALSE
    /\ videoFile = TRUE
    /\ lyrics = FALSE
    /\ draftToRestore = NoDraft
    /\ pendingClear = FALSE
    /\ inflight = {}
    /\ run = NoRun
    /\ settled = NoReply
    /\ input = NoInput

InTiming(slider) ==
    /\ Len(history') <= MaxMoves + 1
    /\ run' = Noted(slider)
    /\ UNCHANGED <<settled, input>>

NextTiming ==
    \/ (\E v \in SliderValues : HandleOffsetChange(v)) /\ InTiming("offset")
    \/ (\E v \in SliderValues : HandleEndTimePaddingChange(v))
           /\ InTiming("padding")

SpecTiming == InitTiming /\ [][NextTiming]_vars

(***************************************************************************)
(* The refine on its own: the editor right after an import, refines that   *)
(* the model answers in every way, and the handlers that change the number *)
(* of entries or replace the collection in between.                        *)
(***************************************************************************)
EchoReplies ==
    FailureReplies
        \cup {Reply("json", SubSeq(EchoedItems, 1, n)) : n \in 0..Len(EchoedItems)}

\* What settled notes of the refine p that gets reply: the reply, the
\* entries the refine was given, what refineSrtTimings makes of both, and
\* the history and cursor the reply found.
Settled(p, reply) ==
    [kind |-> reply.kind, items |-> reply.items, given |-> p.entries,
     result |-> refineSrtTimings(p.entries, reply),
     history |-> history, currentIndex |-> currentIndex]

InitRefine ==
    /\ \E import \in ParsedImports :
           /\ Len(import.entries) > 0
           /\ history = <<import.entries>>
           /\ last = Called("imported", <<>>, import.entries)
    /\ currentIndex = 0
    /\ offset = 0
    /\ endTimePadding = 0
    /\ isLoading = FALSE
    /\ isRefining = FALSE
    /\ error = FALSE
    /\ videoFile = TRUE
    /\ lyrics = FALSE
    /\ draftToRestore \in SavedDrafts
    /\ pendingClear = FALSE
    /\ inflight = {}
    /\ run = NoRun
    /\ settled = NoReply
    /\ input = NoInput

RefineAnswered ==
    \E p \in inflight, reply \in EchoReplies :
        /\ RefineSettled(p, reply)
        /\ settled' = Settled(p, reply)

InRefine == Bounded' /\ UNCHANGED <<run, input>>

NextRefine ==
    \/ HandleRefineTimings /\ InRefine /\ settled' = NoReply
    \/ RefineAnswered /\ InRefine
    \/ HandleAddLine /\ InRefine /\ settled' = NoReply
    \/ Deleted /\ InRefine /\ settled' = NoReply
    \/ Undo /\ InRefine /\ settled' = NoReply
    \/ HandleRestoreDraft /\ InRefine /\ settled' = NoReply
    \/ ClearMessage /\ InRefine /\ settled' = NoReply

SpecRefine == InitRefine /\ [][NextRefine]_vars

(***************************************************************************)
(* The timestamp codec on its own: an argument is drawn, and                *)
(* normalizeTimestamp, timestampToMs and msToTimestamp are applied to it.  *)
(***************************************************************************)
\* What the segments of a written timestamp hold: in range, at the edge of
\* the range, and beyond it.
SegmentValues == {0, 7, 59, 60, 95, 100}

\* One, two or three segments.
SegmentLists ==
    UNION {[1..n -> SegmentValues] : n \in 1..3}

\* The millisecond group of a written timestamp with its separator: none,
\* or one, two or three digits.
MsGroups ==
    { [sep |-> <<>>, digits |-> <<>>],
      [sep |-> <<",">>, digits |-> <<"5">>],
      [sep |-> <<".">>, digits |-> <<"5", "0">>],
      [sep |-> <<":">>, digits |-> <<"5", "0", "7">>] }

\* A timestamp as a person or a file writes it: segments of at least two
\* digits separated by colons, then the millisecond group.
Written(segments, group) ==
    join([i \in 1..Len(segments) |-> padStart(NatToStr(segments[i]), 2, "0")],
         <<":">>)
        \o group.sep \o group.digits

TimestampInputs ==
    { [kind |-> "timestamp", text |-> Written(segments, group),
       segments |-> segments, group |-> group] :
          segments \in SegmentLists, group \in MsGroups }

\* Texts that are not timestamps.
MalformedTexts ==
    { <<>>, <<" ">>, <<"a", "b", "c">>, <<"-", "-", ":", "-", "-">>,
      <<"a", ":", "b", ":", "c">>, <<"1", "2", "a", "b", "c">>,
      <<"a", "b", "c", ".", "5">> }

TextInputs == {[kind |-> "text", text |-> t] : t \in MalformedTexts}

\* Millisecond counts: negative, small, at each carry, and at 100 hours.
MsValues ==
    { -1000, -1, 0, 1, 999, 1000, 59999, 60000, 3599999, 3600000,
      359999999, 360000000, 360000001 }

MsInputs == {[kind |-> "ms", ms |-> m] : m \in MsValues}

InitCodec ==
    /\ history = <<<<>>>>
    /\ currentIndex = 0
    /\ offset = 0
    /\ endTimePadding = 0
    /\ isLoading = FALSE
    /\ isRefining = FALSE
    /\ error = FALSE
    /\ videoFile = FALSE
    /\ lyrics = FALSE
    /\ draftToRestore = NoDraft
    /\ pendingClear = FALSE
    /\ inflight = {}
    /\ run = NoRun
    /\ settled = NoReply
    /\ input \in TimestampInputs \cup TextInputs \cup MsInputs
    /\ last = Called("input", <<>>, <<>>)

\* Only last changes when a function is applied.
Applied ==
    UNCHANGED <<history, currentIndex, offset, endTimePadding, isLoading,
                isRefining, error, videoFile, lyrics, draftToRestore,
                pendingClear, inflight, run, settled, input>>

NormalizeTimestamp ==
    /\ input.kind \in {"timestamp", "text"}
    /\ last.op = "input"
    /\ last' = Called("normalizeTimestamp", input.text,
                      normalizeTimestamp(input.text))
    /\ Applied

TimestampToMs ==
    /\ input.kind \in {"timestamp", "text"}
    /\ last.op = "input"
    /\ last' = Called("timestampToMs", input.text, timestampToMs(input.text))
    /\ Applied

MsToTimestamp ==
    /\ input.kind = "ms"
    /\ last.op = "input"
    /\ last' = Called("msToTimestamp", input.ms, msToTimestamp(input.ms))
    /\ Applied

\* timestampToMs of what msToTimestamp returned.
MsRoundTrip ==
    /\ last.op = "msToTimestamp"
    /\ last' = Called("msRoundTrip", last.next, timestampToMs(last.next))
    /\ Applied

NextCodec ==
    \/ NormalizeTimestamp
    \/ TimestampToMs
    \/ MsToTimestamp
    \/ MsRoundTrip

SpecCodec == InitCodec /\ [][NextCodec]_vars

(***************************************************************************)
(* The subtitle files on their own: a collection is drawn, serialized and  *)
(* parsed again; an LRC file is drawn and parsed.                          *)
(***************************************************************************)
\* The texts of an entry: one line, two lines (with either line break), no
\* text at all, and two lines with an empty line between them.
EntryTexts ==
    { <<"a">>, <<"a", " ", "b">>, <<"a", "\n", "b">>,
      <<"a", "\r", "\n", "b">>, <<>>, <<"a", "\n", "\n", "b">> }

\* Start and end of an entry in milliseconds, start <= end.
EntryTimings == {<<0, 0>>, <<1000, 2500>>}

EntryInputs ==
    { SrtEntryData(0, msToTimestamp(t[1]), msToTimestamp(t[2]), text) :
          t \in EntryTimings, text \in EntryTexts }

\* Non-empty collections of at most MaxEntries entries, numbered from 1.
CollectionInputs ==
    { [kind |-> "entries", entries |-> reindex(entries)] :
          entries \in UNION {[1..n -> EntryInputs] : n \in 1..MaxEntries} }

MaxLines == 3

\* A line of an LRC file: a tag (minutes, seconds, hundredths) followed by
\* a text, a tag followed by nothing, or a text without a tag (the empty
\* line among them).
LrcLine(tagged, timeMs, text) ==
    [tagged |-> tagged, timeMs |-> timeMs, text |-> text]

LrcLines ==
    { LrcLine(TRUE, 1000, <<"a">>), LrcLine(TRUE, 4000, <<"b">>),
      LrcLine(TRUE, 500, <<"c", " ", "d">>), LrcLine(TRUE, 2000, <<>>),
      LrcLine(FALSE, 0, <<"x">>), LrcLine(FALSE, 0, <<>>) }

\* [MM:SS.xx] of a time in milliseconds.
LrcTag(timeMs) ==
    <<"[">> \o padStart(NatToStr(timeMs \div 60000), 2, "0") \o <<":">>
        \o padStart(NatToStr((timeMs \div 1000) % 60), 2, "0") \o <<".">>
        \o padStart(NatToStr((timeMs % 1000) \div 10), 2, "0") \o <<"]">>

LrcLineText(line) ==
    (IF line.tagged THEN LrcTag(line.timeMs) ELSE <<>>) \o line.text

LrcContent(lines, eol) ==
    join([i \in 1..Len(lines) |-> LrcLineText(lines[i])], eol)

LrcInputs ==
    { [kind |-> "lrc", lines |-> lines, content |-> LrcContent(lines, eol)] :
          lines \in UNION {[1..n -> LrcLines] : n \in 1..MaxLines},
          eol \in {<<"\n">>, Crlf} }

MaxBlocks == 3

\* A block of a subtitle file: its text, whether the parser of the format
\* is to make an entry of it (cue), with the start, end and text of that
\* entry, and whether srtToVtt is to make a cue of it (convertible).
FileBlock(text, cue, convertible, entry) ==
    [text |-> text, cue |-> cue, convertible |-> convertible, entry |-> entry]

NoEntry == SrtEntryData(0, <<>>, <<>>, <<>>)

\* Blocks of an SRT file: a cue whose times are written as seconds with a
\* fraction and no space around the arrow; a cue numbered 7 whose start is
\* written as minutes, seconds and hundredths and whose text has two
\* lines; a block whose first line is not a number; a block without a
\* time line; a block of one line.
SrtFileBlocks ==
    { FileBlock(<<"1">> \o NL \o <<"1", ".", "0", "-", "-", ">", "2", ".", "5">>
                    \o NL \o <<"a">>,
                TRUE, TRUE,
                SrtEntryData(1, msToTimestamp(1000), msToTimestamp(2500),
                             <<"a">>)),
      FileBlock(<<"7">> \o NL \o <<"0", ":", "0", "3", ".", "5", "0">> \o Arrow
                    \o <<"4">> \o NL \o <<"b">> \o NL \o <<"c">>,
                TRUE, TRUE,
                SrtEntryData(7, msToTimestamp(3500), msToTimestamp(4000),
                             <<"b", "\n", "c">>)),
      FileBlock(<<"x">> \o NL \o <<"5", "-", "-", ">", "6">> \o NL \o <<"d">>,
                FALSE, TRUE, NoEntry),
      FileBlock(<<"3">> \o NL \o <<"h", "e", "l", "l", "o">>,
                FALSE, FALSE, NoEntry),
      FileBlock(<<"h", "i">>, FALSE, FALSE, NoEntry) }

\* Blocks of a VTT file: a cue written as MM:SS.mmm; a cue with cue
\* settings and a text of two lines; a note; a block of text.
VttFileBlocks ==
    { FileBlock(<<"0", "0", ":", "0", "1", ".", "0", "0", "0">> \o Arrow
                    \o <<"0", "0", ":", "0", "2", ".", "5", "0", "0">>
                    \o NL \o <<"a">>,
                TRUE, TRUE,
                SrtEntryData(0, msToTimestamp(1000), msToTimestamp(2500),
                             <<"a">>)),
      FileBlock(<<"0", ":", "0", "3", ".", "5">> \o Arrow \o <<"4", ".", "0">>
                    \o <<" ", "l", "i", "n", "e", ":", "0", " ", "a", ":", "b">>
                    \o NL \o <<"b">> \o NL \o <<"c">>,
                TRUE, TRUE,
                SrtEntryData(0, msToTimestamp(3500), msToTimestamp(4000),
                             <<"b", "\n", "c">>)),
      FileBlock(<<"N", "O", "T", "E", " ", "x">>, FALSE, FALSE, NoEntry),
      FileBlock(<<"h", "i">> \o NL \o <<"y">>, FALSE, FALSE, NoEntry) }

BlockLists(blocks) == UNION {[1..n -> blocks] : n \in 1..MaxBlocks}

FileContent(blocks) ==
    join([i \in 1..Len(blocks) |-> blocks[i].text], NL \o NL)

SrtFileInputs ==
    { [kind |-> "srt", blocks |-> blocks, content |-> FileContent(blocks)] :
          blocks \in BlockLists(SrtFileBlocks) }

VttFileInputs ==
    { [kind |-> "vtt", blocks |-> blocks,
       content |-> WebVttHeader \o NL \o NL \o FileContent(blocks)] :
          blocks \in BlockLists(VttFileBlocks) }

InitFiles ==
    /\ history = <<<<>>>>
    /\ currentIndex = 0
    /\ offset = 0
    /\ endTimePadding = 0
    /\ isLoading = FALSE
    /\ isRefining = FALSE
    /\ error = FALSE
    /\ videoFile = FALSE
    /\ lyrics = FALSE
    /\ draftToRestore = NoDraft
    /\ pendingClear = FALSE
    /\ inflight = {}
    /\ run = NoRun
    /\ settled = NoReply
    /\ input \in CollectionInputs \cup LrcInputs \cup SrtFileInputs
                   \cup VttFileInputs
    /\ last = Called("input", <<>>, <<>>)

SerializeSrt ==
    /\ input.kind = "entries"
    /\ last.op = "input"
    /\ last' = Called("serializeSrt", input.entries,
                      serializeSrt(input.entries))
    /\ Applied

\* parseSrt of what serializeSrt returned.
ParseSerialized ==
    /\ last.op = "serializeSrt"
    /\ last' = Called("parseSrt", last.next, parseSrt(last.next))
    /\ Applied

ParseLrc ==
    /\ input.kind = "lrc"
    /\ last.op = "input"
    /\ last' = Called("parseLrc", input.content, parseLrc(input.content))
    /\ Applied

ParseSrt ==
    /\ input.kind = "srt"
    /\ last.op = "input"
    /\ last' = Called("parseSrt", input.content, parseSrt(input.content))
    /\ Applied

ParseVtt ==
    /\ input.kind = "vtt"
    /\ last.op = "input"
    /\ last' = Called("parseVtt", input.content, parseVtt(input.content))
    /\ Applied

SrtToVtt ==
    /\ input.kind = "srt"
    /\ last.op = "input"
    /\ last' = Called("srtToVtt", input.content, srtToVtt(input.content))
    /\ Applied

NextFiles ==
    \/ SerializeSrt
    \/ ParseSerialized
    \/ ParseLrc
    \/ ParseSrt
    \/ ParseVtt
    \/ SrtToVtt

SpecFiles == InitFiles /\ [][NextFiles]_vars

(***************************************************************************)
(* The editor on its own: a collection is drawn, and one handler of the    *)
(* entry list, of the playback buttons or of the padding slider is applied *)
(* to it, with an index that an entry carries or one that none does.       *)
(***************************************************************************)
MaxEditEntries == 3

\* An entry of a collection under edit: start and end in milliseconds and a
\* text.  A text of ten characters over 1325 ms, a zero duration under a
\* text that starts with a space, a text that ends with a space over a long
\* entry that overlaps its neighbours, and an entry without text.
EditEntry(startMs, endMs, text) ==
    SrtEntryData(0, msToTimestamp(startMs), msToTimestamp(endMs), text)

EditEntries ==
    { EditEntry(1000, 2325, <<"a", "b", "c", "d", "e", "f", "g", " ", "h", "i">>),
      EditEntry(2000, 2000, <<" ", "a", "b">>),
      EditEntry(500, 3500, <<"a", " ">>),
      EditEntry(2500, 2600, <<>>) }

\* The numbers of the entries: 1..N, or the numbers an imported SRT file
\* gave its cues (5..N+4).
Numbered(entries, first) ==
    [i \in 1..Len(entries) |-> [entries[i] EXCEPT !.index = first + i - 1]]

\* Up to MaxEditEntries different entries in any order.
EditLists ==
    { entries \in UNION {[1..n -> EditEntries] : n \in 1..MaxEditEntries} :
          \A i, j \in 1..Len(entries) : i # j => entries[i] # entries[j] }

EditCollections ==
    {Numbered(entries, 1) : entries \in EditLists}
        \cup {Numbered(entries, 5) : entries \in {e \in EditLists : Len(e) < 3}}

\* Indices that no entry of an EditCollection carries.
OtherIndices == {0, 9}

EditPlaybackTimesMs == {1500, 5000}

EditPaddingValues == {-1000, -500, 500}

InitEdits ==
    /\ \E entries \in EditCollections :
           /\ history = <<entries>>
           /\ last = Called("input", <<>>, entries)
    /\ currentIndex = 0
    /\ offset = 0
    /\ endTimePadding = 0
    /\ isLoading = FALSE
    /\ isRefining = FALSE
    /\ error = FALSE
    /\ videoFile = TRUE
    /\ lyrics = FALSE
    /\ draftToRestore = NoDraft
    /\ pendingClear = FALSE
    /\ inflight = {}
    /\ run = NoRun
    /\ settled = NoReply
    /\ input = NoInput

\* What input notes of the handler that is applied: its name, the index
\* and the other argument it was given, and the history, cursor and
\* padding it found.
Given(op, index, arg) ==
    [kind |-> op, index |-> index, arg |-> arg, history |-> history,
     currentIndex |-> currentIndex, endTimePadding |-> endTimePadding]

\* One handler is applied to the collection drawn.
InEdits(op, index, arg) ==
    /\ input = NoInput
    /\ input' = Given(op, index, arg)
    /\ UNCHANGED <<run, settled>>

EditIndices == Indices \cup OtherIndices

InsertedAfter ==
    \E index \in EditIndices :
        HandleInsert(index) /\ InEdits("insertAfter", index, 0)

DeletedEntry ==
    \E index \in EditIndices :
        HandleDelete(index) /\ InEdits("deleteEntry", index, 0)

MovedEntry ==
    \E index \in EditIndices, direction \in {"up", "down"} :
        HandleMove(index, direction) /\ InEdits("moveEntry", index, direction)

MergedWithNext ==
    \E index \in EditIndices :
        HandleMerge(index) /\ InEdits("mergeWithNext", index, 0)

SplitAt ==
    \E index \in EditIndices, splitAt \in (0 - 1)..11 :
        HandleSplit(index, splitAt) /\ InEdits("splitAt", index, splitAt)

UpdatedField ==
    \/ \E index \in EditIndices, field \in TimeFields, value \in TypedTimes :
           HandleUpdate(index, field, value)
               /\ InEdits("updateField", index, field)
    \/ \E index \in EditIndices, value \in TypedTexts :
           HandleUpdate(index, "text", value)
               /\ InEdits("updateField", index, "text")

FieldSetToCurrent ==
    \E index \in EditIndices, field \in TimeFields,
       t \in EditPlaybackTimesMs :
        HandleSetTimeToCurrent(index, field, t)
            /\ InEdits(field, index, t)

EndPaddingApplied ==
    \E v \in EditPaddingValues :
        HandleEndTimePaddingChange(v) /\ InEdits("applyEndPadding", 0, v)

\* The rows of the collection, from 0, as the list hands them to the drag
\* handlers.
Reordered ==
    \E draggedIndex \in Positions, dropIndex \in Positions :
        HandleDrop(draggedIndex, dropIndex)
            /\ InEdits("reorder", draggedIndex, dropIndex)

\* The place the handler that was applied found its index at.
EditedPlace == findIndex(last.prev, input.index)

\* A further handler is applied to the collection the first one gave.
ThenEdits(op) ==
    /\ input' = [input EXCEPT !.kind = op]
    /\ UNCHANGED <<run, settled>>

\* The entry that was moved down is moved up.
MovedBackUp ==
    /\ input.kind = "moveEntry"
    /\ input.arg = "down"
    /\ EditedPlace > 0
    /\ EditedPlace < Len(last.prev)
    /\ HandleMove(srtEntries[EditedPlace + 1].index, "up")
    /\ ThenEdits("moveDownUp")

\* The first half of the entry that was split is merged with the second.
MergedAfterSplit ==
    /\ input.kind = "splitAt"
    /\ EditedPlace > 0
    /\ Len(last.next) = Len(last.prev) + 1
    /\ HandleMerge(srtEntries[EditedPlace].index)
    /\ ThenEdits("splitMerge")

NextEdits ==
    \/ InsertedAfter
    \/ DeletedEntry
    \/ MovedEntry
    \/ MergedWithNext
    \/ SplitAt
    \/ UpdatedField
    \/ FieldSetToCurrent
    \/ EndPaddingApplied
    \/ Reordered
    \/ MovedBackUp
    \/ MergedAfterSplit

SpecEdits == InitEdits /\ [][NextEdits]_vars

(***************************************************************************)
(* The import on its own: files are picked between moves of the sliders    *)
(* and added lines, and input notes what each import was given and found.  *)
(***************************************************************************)
\* What input notes of an import: the file, what it parses to, and the
\* history, cursor, offset and padding the import found.
Picked(import) ==
    [kind |-> "import", file |-> import.file, entries |-> import.entries,
     history |-> history, currentIndex |-> currentIndex,
     offset |-> offset, endTimePadding |-> endTimePadding]

ImportedNoted ==
    \E import \in ParsedImports :
        /\ HandleImportSubtitles(import)
        /\ input' = Picked(import)

InImport == Bounded' /\ UNCHANGED <<run, settled>>

NextImport ==
    \/ ImportedNoted /\ InImport
    \/ FileSelected /\ InImport /\ input' = NoInput
    \/ HandleAddLine /\ InImport /\ input' = NoInput
    \/ OffsetMoved /\ InImport /\ input' = NoInput
    \/ PaddingMoved /\ InImport /\ input' = NoInput
    \/ HandleRestoreDraft /\ InImport /\ input' = NoInput
    \/ ClearMessage /\ InImport /\ input' = NoInput

SpecImport == Init /\ [][NextImport]_vars

(***************************************************************************)
(* Properties of the entry collection and of the edit history.             *)
(***************************************************************************)
\* The handlers after which the collection is one that the handler made.
CollectionOps == MutationOps \cup {"imported", "generated"}

Dense(entries) == \A i \in 1..Len(entries) : entries[i].index = i

\* C1: in every state reached after a collection-changing operation (an
\* import, the adoption of a generate or refine result, add line, an edit
\* of the entry list, a move of a slider, set time to current) the entry at
\* 0-based position i has index i + 1.
C1_DenseIndex == last.op \in CollectionOps => Dense(srtEntries)

\* The step in which the attempt p ends in a failure.
GenerateFailed(p) ==
    \/ \E reply \in GenerateReplies :
           /\ ~generateSrtFromVideoAndLyrics(reply).ok
           /\ GenerateStep1(p, reply)
    \/ \E reply \in RefineReplies :
           /\ p.kind = "generate" /\ p.step = 2
           /\ ~refineSrtTimings(p.entries, reply).ok
           /\ GenerateStep2(p, reply)

RefineFailed(p) ==
    \E reply \in RefineReplies :
        /\ p.kind = "refine"
        /\ ~refineSrtTimings(p.entries, reply).ok
        /\ RefineSettled(p, reply)

\* No other handler has replaced the history since the attempt p was
\* started: handleGenerate was the last to call the hook, or the history is
\* the one handleRefineTimings was started on.
Undisturbed(p) ==
    IF p.kind = "generate"
    THEN last.op = "generate"
    ELSE history = p.history /\ currentIndex = p.currentIndex

\* C2: a failed generate or refine attempt leaves the entry collection, the
\* history snapshots and the cursor exactly as they were before the attempt
\* was started.
C2_FailedAttemptLeavesHistory ==
    [][\A p \in inflight :
           ((GenerateFailed(p) \/ RefineFailed(p)) /\ Undisturbed(p))
               => /\ history' = p.history
                  /\ currentIndex' = p.currentIndex]_vars

\* C3: from a history of the single snapshot S0, after one recorded mutation
\* producing S1, undo makes S0 current and a redo after that undo makes S1
\* current; an undo followed by a redo, and a redo followed by an undo,
\* return to the collection they started from.
C3_UndoRedoRoundTrip ==
    [][/\ (Undo /\ last.op \in MutationOps /\ last.single)
              => srtEntries' = last.prev
       /\ (Redo /\ last.op = "undo") => srtEntries' = last.prev
       /\ (Undo /\ last.op = "redo") => srtEntries' = last.prev]_vars

\* The step in which a refine result is handed to setSrtEntries.
RefineAdopted ==
    \E p \in inflight, reply \in RefineReplies :
        /\ p.kind = "refine"
        /\ refineSrtTimings(p.entries, reply).ok
        /\ RefineSettled(p, reply)

\* A step in which a handler hands a collection (last'.next) to
\* setSrtEntries.
Mutation ==
    \/ HandleAddLine \/ OffsetMoved \/ PaddingMoved \/ TimeSetToCurrent
    \/ TimeTyped \/ TextTyped \/ Deleted \/ Moved \/ Inserted \/ Merged
    \/ SplitDone \/ Dropped \/ RefineAdopted

\* C4: a mutation whose collection is not deep-equal to the current one
\* stores it at position cursor + 1, discards every snapshot after the
\* cursor and moves the cursor to the new last position, so that redo is
\* unavailable; undo and redo never add, remove or change a snapshot.
C4_AcceptedMutationRecorded ==
    [][/\ (Mutation /\ last'.next # srtEntries)
              => /\ history' = Append(SubSeq(history, 1, currentIndex + 1),
                                      last'.next)
                 /\ currentIndex' = Len(history') - 1
                 /\ ~canRedo'
       /\ (Undo \/ Redo) => history' = history]_vars

\* C5: a mutation whose collection is deep-equal to the current snapshot is
\* not recorded: snapshots and cursor are unchanged, a redo tail is kept.
C5_NoOpNotRecorded ==
    [][(Mutation /\ last'.next = srtEntries)
           => UNCHANGED <<history, currentIndex>>]_vars

\* C6: after a successful import or a successful generate the history is
\* the single snapshot of the new collection with the cursor on it, and
\* neither undo nor redo is available.
C6_ReplaceResetsHistory ==
    last.op \in {"imported", "generated"}
        => /\ history = <<last.next>>
           /\ currentIndex = 0
           /\ ~canUndo /\ ~canRedo

\* The result of a generate attempt, of MaxEntries entries, was adopted.
C6_GeneratedOverHistory ==
    /\ last.op = "generated"
    /\ Len(srtEntries) = MaxEntries
    /\ inflight = {}

\* C10: handleOffsetChange(v) while the stored offset is v changes nothing:
\* collection, snapshots, cursor and stored offset stay as they are.
C10_OffsetIdempotent ==
    [][\A v \in OffsetValues :
           (v = offset /\ HandleOffsetChange(v))
               => UNCHANGED <<history, currentIndex, offset, endTimePadding>>]_vars

\* The offset slider was set to the value it already held, a value other
\* than 0, over a collection with entries.
C10_SameValueAgain ==
    /\ last.op = "offsetChange"
    /\ last.prev = last.next
    /\ offset = 1000
    /\ Len(srtEntries) > 0

(***************************************************************************)
(* Properties of the two sliders, over SpecTiming.                         *)
(***************************************************************************)
Times(entries) ==
    [i \in 1..Len(entries) |-> <<entries[i].startTime, entries[i].endTime>>]

Ends(entries) == [i \in 1..Len(entries) |-> entries[i].endTime]

WellFormed(entries) ==
    \A i \in 1..Len(entries) :
        timestampToMs(entries[i].startTime) <= timestampToMs(entries[i].endTime)

\* C7: in a sequence of moves of the offset slider with no other edit in
\* between, whenever the slider is at a value it held earlier, every
\* entry's start and end are what they were when it last held that value.
C7_OffsetReverses ==
    (run.slider = "offset" /\ offset \in DOMAIN run.seen)
        => Times(srtEntries) = Times(run.seen[offset])

\* C8: from a collection in which every entry has start <= end, after any
\* sequence of moves of the padding slider every entry still has
\* end >= start.
C8_PaddingKeepsOrder ==
    (run.slider = "padding" /\ WellFormed(run.base)) => WellFormed(srtEntries)

\* C9: after a sequence of moves of the padding slider with no other edit in
\* between, started at 0 and back at 0, every entry's end time is what it
\* was before the first move.
C9_PaddingResetRestoresEnds ==
    (run.slider = "padding" /\ run.from = 0 /\ endTimePadding = 0)
        => Ends(srtEntries) = Ends(run.base)

(***************************************************************************)
(* Properties of the refine, over SpecRefine.                              *)
(***************************************************************************)
\* C11: a refine of N entries that the model answers with M entries, M # N,
\* ends in an explicit error: refineSrtTimings returns no collection at
\* all, the message is set, and history and cursor stay as the reply found
\* them.
C11_MismatchIsError ==
    (settled.kind = "json" /\ Len(settled.items) # Len(settled.given))
        => /\ ~settled.result.ok
           /\ settled.result.entries = <<>>
           /\ error
           /\ history = settled.history
           /\ currentIndex = settled.currentIndex

\* A refine of one entry was answered with more entries than it was given.
C11_MoreThanGiven ==
    /\ settled.kind = "json"
    /\ Len(settled.given) = 1
    /\ Len(settled.items) > 1

\* C12: for a reply with as many entries as the refine was given, the i-th
\* entry of the result has the index and text of the i-th entry given and
\* the normalized start and end of the i-th entry of the reply.
C12_PairedByPlace ==
    (settled.kind = "json" /\ Len(settled.items) = Len(settled.given))
        => /\ settled.result.ok
           /\ Len(settled.result.entries) = Len(settled.given)
           /\ \A i \in 1..Len(settled.given) :
                  /\ settled.result.entries[i].index = settled.given[i].index
                  /\ settled.result.entries[i].text = settled.given[i].text
                  /\ settled.result.entries[i].startTime
                         = normalizeTimestamp(settled.items[i].startTime)
                  /\ settled.result.entries[i].endTime
                         = normalizeTimestamp(settled.items[i].endTime)

\* A refine of MaxEntries entries was answered with as many, whose first
\* start is not canonical and whose index and text differ from the given.
C12_SameCount ==
    /\ settled.kind = "json"
    /\ Len(settled.given) = MaxEntries
    /\ Len(settled.items) = MaxEntries
    /\ settled.items[1].startTime # settled.result.entries[1].startTime
    /\ settled.items[1].text # settled.given[1].text

(***************************************************************************)
(* What can be dispatched while a request is in flight, over Spec.         *)
(***************************************************************************)
\* C13: at most one AI request is outstanding at any time, and a step taken
\* while a generate or refine is in flight that is not a step of that
\* request (the set of outstanding requests stays as it is) changes neither
\* the history, the cursor, offset nor endTimePadding.
C13_NothingDispatchedInFlight ==
    [][/\ Cardinality(inflight') <= 1
       /\ (inflight # {} /\ inflight' = inflight)
              => UNCHANGED <<history, currentIndex, offset, endTimePadding>>]_vars

(***************************************************************************)
(* Properties of the timestamp codec, over SpecCodec.                      *)
(***************************************************************************)
\* C14: for every m >= 0, values of 100 hours and more included,
\* timestampToMs(msToTimestamp(m)) = m; and msToTimestamp of a negative m
\* is msToTimestamp(0).
C14_MsRoundTrip ==
    /\ (last.op = "msToTimestamp" /\ input.ms < 0)
           => last.next = msToTimestamp(0)
    /\ (last.op = "msRoundTrip" /\ input.ms >= 0) => last.next = input.ms

\* The canonical shape: two digits, ':', two digits, ':', two digits, ',',
\* three digits, and nothing else.
Canonical(s) == Len(s) = 12 /\ CanonicalAt(s, 1)

\* C15: for a timestamp of 1, 2 or 3 numeric segments, with or without a
\* millisecond group, whatever the magnitude of the segments, the output of
\* normalizeTimestamp has the canonical shape.
C15_NormalizedIsCanonical ==
    (input.kind = "timestamp" /\ last.op = "normalizeTimestamp")
        => Canonical(last.next)

\* The hours, minutes and seconds that segments denote, missing ones 0.
SegmentsOf(segments) ==
    [i \in 1..(3 - Len(segments)) |-> 0] \o segments

InRange(segments) ==
    LET hms == SegmentsOf(segments)
    IN  hms[1] < 100 /\ hms[2] < 60 /\ hms[3] < 60

\* hours:minutes:seconds of two digits each.
Clock(hms) ==
    padStart(NatToStr(hms[1]), 2, "0") \o <<":">>
        \o padStart(NatToStr(hms[2]), 2, "0") \o <<":">>
        \o padStart(NatToStr(hms[3]), 2, "0")

\* C16: an input without a millisecond group that is SS, MM:SS or HH:MM:SS
\* comes back with those hours, minutes and seconds, missing segments 00,
\* and milliseconds 000; a millisecond group of 1 or 2 digits comes back
\* right-padded with zeros to 3 digits.
C16_DefaultsAndPadding ==
    (input.kind = "timestamp" /\ last.op = "normalizeTimestamp")
        => /\ (input.group.digits = <<>> /\ InRange(input.segments))
                  => last.next = Clock(SegmentsOf(input.segments))
                                     \o <<",", "0", "0", "0">>
           /\ (Len(input.group.digits) \in {1, 2})
                  => SubSeq(last.next, Len(last.next) - 3, Len(last.next))
                         = <<",">> \o padEnd(input.group.digits, 3, "0")

\* The fields of an output H..H:MM:SS,mmm, as numbers.
FieldsOf(ts) ==
    LET parts == split(ts, ":")
        tail == split(parts[Len(parts)], ",")
    IN  [hours |-> parseIntOr0(parts[1]),
         minutes |-> parseIntOr0(parts[2]),
         seconds |-> parseIntOr0(tail[1]),
         ms |-> parseIntOr0(tail[2])]

DurationOf(f) == (f.hours * 3600 + f.minutes * 60 + f.seconds) * 1000 + f.ms

\* The duration an input denotes: its segments, and its millisecond group
\* read as a fraction of a second.
DurationOfInput(in) ==
    LET hms == SegmentsOf(in.segments)
    IN  (hms[1] * 3600 + hms[2] * 60 + hms[3]) * 1000
            + parseIntOr0(padEnd(in.group.digits, 3, "0"))

\* C17: seconds and minutes out of range are carried, never rejected: the
\* output has seconds < 60 and minutes < 60 and denotes the same total
\* duration as the input.
C17_CarryKeepsDuration ==
    (input.kind = "timestamp" /\ last.op = "normalizeTimestamp")
        => /\ FieldsOf(last.next).seconds < 60
           /\ FieldsOf(last.next).minutes < 60
           /\ DurationOf(FieldsOf(last.next)) = DurationOfInput(input)

\* C18: for the empty string and for a text that is not a timestamp,
\* normalizeTimestamp returns 00:00:00,000 and timestampToMs returns 0.
C18_MalformedIsZero ==
    /\ (input.kind = "text" /\ last.op = "normalizeTimestamp")
           => last.next = ZeroTimestamp
    /\ (input.kind = "text" /\ last.op = "timestampToMs") => last.next = 0

(***************************************************************************)
(* Properties of the subtitle files, over SpecFiles.                       *)
(***************************************************************************)
\* A text with every line break written as a line feed.
RECURSIVE LineFeeds(_)
LineFeeds(text) ==
    IF text = <<>> THEN <<>>
    ELSE IF Len(text) >= 2 /\ text[1] = "\r" /\ text[2] = "\n"
    THEN LineFeeds(Tail(text))
    ELSE <<Head(text)>> \o LineFeeds(Tail(text))

\* C19: for a non-empty list of entries with canonical start <= end and any
\* text, multi-line text included, parseSrt(serializeSrt(entries)) has as
\* many entries, in the same order, with the same start, end and text up
\* to the way line breaks are written.
C19_SrtRoundTrip ==
    (input.kind = "entries" /\ last.op = "parseSrt")
        => /\ Len(last.next) = Len(input.entries)
           /\ \A i \in 1..Len(input.entries) :
                  /\ last.next[i].startTime = input.entries[i].startTime
                  /\ last.next[i].endTime = input.entries[i].endTime
                  /\ last.next[i].text = LineFeeds(input.entries[i].text)

\* The lines of an LRC file that carry a tag and a text, in file order.
KeptLines(lines) == SelectSeq(lines, LAMBDA l : l.tagged /\ l.text # <<>>)

\* C20: parseLrc keeps, in file order and unsorted, exactly the lines with
\* a tag [MM:SS.xx] and a text; the i-th kept line (from 0) gets index
\* i + 1, its own time as start, and as end the start of the next kept
\* line, or its start + 3000 ms when it is the last.
C20_LrcEntries ==
    (input.kind = "lrc" /\ last.op = "parseLrc")
        => LET kept == KeptLines(input.lines)
           IN  /\ Len(last.next) = Len(kept)
               /\ \A i \in 1..Len(kept) :
                      /\ last.next[i].index = i
                      /\ last.next[i].text = kept[i].text
                      /\ last.next[i].startTime = msToTimestamp(kept[i].timeMs)
                      /\ last.next[i].endTime
                             = msToTimestamp(IF i < Len(kept)
                                             THEN kept[i + 1].timeMs
                                             ELSE kept[i].timeMs + 3000)

\* A file of MaxLines lines, one of them without a text, was parsed into
\* entries that start at 1000 and 4000 and end at 4000 and 7000.
C20_NextStartOrThreeSeconds ==
    /\ input.kind = "lrc"
    /\ last.op = "parseLrc"
    /\ Len(input.lines) = MaxLines
    /\ Len(last.next) = 2
    /\ last.next[1].startTime = msToTimestamp(1000)
    /\ last.next[1].endTime = msToTimestamp(4000)
    /\ last.next[2].endTime = msToTimestamp(7000)

(***************************************************************************)
(* Properties of the handlers of the editor, over SpecEdits.  last.prev is *)
(* the collection the handler found and last.next the one it computed.     *)
(***************************************************************************)
\* The place (from 1) of the first entry that carries seq, 0 if none does.
PositionOf(entries, seq) ==
    IF \A i \in 1..Len(entries) : entries[i].index # seq THEN 0
    ELSE CHOOSE i \in 1..Len(entries) :
             /\ entries[i].index = seq
             /\ \A j \in 1..(i - 1) : entries[j].index # seq

\* Start, end and text of two entries are the same.
SameContent(e1, e2) ==
    /\ e1.startTime = e2.startTime
    /\ e1.endTime = e2.endTime
    /\ e1.text = e2.text

\* The handler left the collection and the history as it found them.
LeftAlone ==
    /\ last.next = last.prev
    /\ history = input.history
    /\ currentIndex = input.currentIndex

\* C21: mergeWithNext on the entry at place i that has a successor puts one
\* entry in the place of entries i and i+1, with the start of i, the end of
\* i+1 and the trimmed text of i, a newline and the trimmed text of i+1,
\* and the collection is one shorter; on the last entry it leaves the
\* collection and the history unchanged.
C21_MergeWithNext ==
    (input.kind = "mergeWithNext" /\ PositionOf(last.prev, input.index) > 0)
        => LET i == PositionOf(last.prev, input.index)
           IN  IF i = Len(last.prev) THEN LeftAlone
               ELSE /\ Len(last.next) = Len(last.prev) - 1
                    /\ last.next[i].startTime = last.prev[i].startTime
                    /\ last.next[i].endTime = last.prev[i + 1].endTime
                    /\ last.next[i].text
                           = trim(last.prev[i].text) \o <<"\n">>
                                 \o trim(last.prev[i + 1].text)

\* Whether splitAt at offset k of text is refused.
Refused(text, k) ==
    \/ k <= 0
    \/ k >= Len(text)
    \/ trim(SubSeq(text, 1, k)) = <<>>
    \/ trim(SubSeq(text, k + 1, Len(text))) = <<>>

\* C22: splitAt leaves the collection and the history unchanged when the
\* offset is <= 0 or >= the length of the text or when a half of the text
\* is empty after trimming; otherwise the collection grows by exactly one
\* entry and neither of the two entries has an empty text.
C22_SplitRefusedOrGrows ==
    (input.kind = "splitAt" /\ PositionOf(last.prev, input.index) > 0)
        => LET i == PositionOf(last.prev, input.index)
           IN  IF Refused(last.prev[i].text, input.arg) THEN LeftAlone
               ELSE /\ Len(last.next) = Len(last.prev) + 1
                    /\ last.next[i].text # <<>>
                    /\ last.next[i + 1].text # <<>>

\* A split inside a text whose first half is only a space was refused.
C22_EmptyHalfRefused ==
    /\ input.kind = "splitAt"
    /\ PositionOf(last.prev, input.index) > 0
    /\ input.arg = 1
    /\ last.prev[PositionOf(last.prev, input.index)].text = <<" ", "a", "b">>
    /\ last.next = last.prev

\* C23: insertAfter on the entry at place i puts one new entry at place
\* i+1 whose start and end are the end of entry i and whose text is the
\* placeholder, keeps start, end and text of every other entry and their
\* order, and leaves the collection numbered 1..N+1.
C23_InsertAfter ==
    (input.kind = "insertAfter" /\ PositionOf(last.prev, input.index) > 0)
        => LET i == PositionOf(last.prev, input.index)
           IN  /\ Len(last.next) = Len(last.prev) + 1
               /\ last.next[i + 1].startTime = last.prev[i].endTime
               /\ last.next[i + 1].endTime = last.prev[i].endTime
               /\ last.next[i + 1].text
                      = <<"N", "e", "w", " ", "s", "u", "b", "t", "i", "t",
                          "l", "e">>
               /\ \A j \in 1..Len(last.prev) :
                      SameContent(last.next[IF j <= i THEN j ELSE j + 1],
                                  last.prev[j])
               /\ \A j \in 1..Len(last.next) : last.next[j].index = j

\* An entry was inserted after the first of two entries numbered 5 and 6.
C23_InsertedInTheMiddle ==
    /\ input.kind = "insertAfter"
    /\ input.index = 5
    /\ Len(last.prev) = 2
    /\ last.prev[1].index = 5
    /\ Len(last.next) = 3

\* The operations that take the index of an entry.
IndexedOps ==
    {"insertAfter", "deleteEntry", "moveEntry", "mergeWithNext", "splitAt",
     "updateField", "startTime", "endTime"}

\* C24: an operation given an index that no entry of the collection
\* carries leaves the collection unchanged, records no history snapshot
\* and raises no error.
C24_AbsentIndexIsNoOp ==
    (input.kind \in IndexedOps /\ PositionOf(last.prev, input.index) = 0)
        => LeftAlone /\ ~error

(***************************************************************************)
(* Properties of the parsers and of srtToVtt on files made of blocks,      *)
(* over SpecFiles.                                                         *)
(***************************************************************************)
\* The blocks of a file that are cues, in file order.
CueBlocks(blocks) == SelectSeq(blocks, LAMBDA b : b.cue)

\* C25: parseSrt skips a block whose first line is not a number or whose
\* second line is not a time line (or is missing) and returns every other
\* block of the file, in file order, with the number of the block,
\* normalized start and end and the text.
C25_SrtDegradesByOmission ==
    (input.kind = "srt" /\ last.op = "parseSrt")
        => LET cues == CueBlocks(input.blocks)
           IN  /\ Len(last.next) = Len(cues)
               /\ \A i \in 1..Len(cues) : last.next[i] = cues[i].entry

\* A file of MaxBlocks blocks whose second block has no number was parsed
\* into the first and the third.
C25_MiddleBlockSkipped ==
    /\ input.kind = "srt"
    /\ last.op = "parseSrt"
    /\ Len(input.blocks) = MaxBlocks
    /\ input.blocks[1].cue /\ ~input.blocks[2].cue /\ input.blocks[3].cue
    /\ input.blocks[2].text[1] = "x"
    /\ Len(last.next) = 2

\* C26: parseVtt returns one entry per cue block, in block order, numbered
\* 1..N whatever blocks were skipped, with start and end in the canonical
\* form and without the cue settings that follow the end.
C26_VttCuesNumbered ==
    (input.kind = "vtt" /\ last.op = "parseVtt")
        => LET cues == CueBlocks(input.blocks)
           IN  /\ Len(last.next) = Len(cues)
               /\ \A i \in 1..Len(cues) :
                      /\ last.next[i].index = i
                      /\ SameContent(last.next[i], cues[i].entry)

\* A file that starts with a note and holds the cue with settings was
\* parsed.
C26_NoteThenCueWithSettings ==
    /\ input.kind = "vtt"
    /\ last.op = "parseVtt"
    /\ Len(input.blocks) >= 2
    /\ ~input.blocks[1].cue
    /\ input.blocks[2].cue
    /\ input.blocks[2].entry.startTime = msToTimestamp(3500)
    /\ Len(last.next) >= 1
    /\ last.next[1].index = 1

\* Whether sub occurs in s.
Contains(s, sub) ==
    \E i \in 1..(Len(s) - Len(sub) + 1) : SubSeq(s, i, i + Len(sub) - 1) = sub

\* C27: a block srtToVtt cannot fully parse (no line with an arrow, or
\* fewer than two lines) is passed through to the output, not dropped.
C27_UnparsedBlockPassedThrough ==
    (input.kind = "srt" /\ last.op = "srtToVtt")
        => \A i \in 1..Len(input.blocks) :
               ~input.blocks[i].convertible
                   => Contains(last.next, input.blocks[i].text)

(***************************************************************************)
(* Properties of the timing of the edits, over SpecEdits.                  *)
(***************************************************************************)
\* C28: applyEndPadding changes only end times: start, text and index of
\* every entry and the order are kept; when the padding grows every entry
\* that has a following entry ends at or before the start of that entry;
\* when it shrinks the new end is max(own start, end + delta), whatever
\* the following entry.
C28_EndPaddingOnlyEnds ==
    (input.kind = "applyEndPadding")
        => LET delta == input.arg - input.endTimePadding
           IN  /\ Len(last.next) = Len(last.prev)
               /\ \A i \in 1..Len(last.prev) :
                      /\ last.next[i].index = last.prev[i].index
                      /\ last.next[i].startTime = last.prev[i].startTime
                      /\ last.next[i].text = last.prev[i].text
               /\ delta > 0
                      => \A i \in 1..(Len(last.next) - 1) :
                             timestampToMs(last.next[i].endTime)
                                 <= timestampToMs(last.next[i + 1].startTime)
               /\ delta < 0
                      => \A i \in 1..Len(last.next) :
                             timestampToMs(last.next[i].endTime)
                                 = MaxOf(timestampToMs(last.prev[i].startTime),
                                         timestampToMs(last.prev[i].endTime)
                                             + delta)

\* The padding grew and the end of an entry, which would have passed the
\* start of the following entry, was put at that start.
C28_EndCappedAtNextStart ==
    /\ input.kind = "applyEndPadding"
    /\ input.arg - input.endTimePadding > 0
    /\ \E i \in 1..(Len(last.prev) - 1) :
           /\ timestampToMs(last.prev[i].endTime)
                  < timestampToMs(last.prev[i + 1].startTime)
           /\ timestampToMs(last.prev[i].endTime) + input.arg
                  - input.endTimePadding
                  > timestampToMs(last.prev[i + 1].startTime)
           /\ last.next[i].endTime = last.prev[i + 1].startTime

\* round(num / den) on the exact quotient, a half going up.
Rounded(num, den) == (2 * num + den) \div (2 * den)

\* C29: an accepted splitAt at offset k of an entry with start S, end E and
\* a text of length L gives the first half the start S and the end
\* splitMs and the second half the start splitMs and the end E, with
\* splitMs = S + round((E - S) * k / L) when E > S and S when E = S.
C29_SplitTimeProportional ==
    (/\ input.kind = "splitAt"
     /\ PositionOf(last.prev, input.index) > 0
     /\ ~Refused(last.prev[PositionOf(last.prev, input.index)].text, input.arg))
        => LET i == PositionOf(last.prev, input.index)
               S == timestampToMs(last.prev[i].startTime)
               E == timestampToMs(last.prev[i].endTime)
               L == Len(last.prev[i].text)
               splitMs == IF E > S THEN S + Rounded((E - S) * input.arg, L)
                          ELSE S
           IN  /\ Len(last.next) = Len(last.prev) + 1
               /\ timestampToMs(last.next[i].startTime) = S
               /\ timestampToMs(last.next[i].endTime) = splitMs
               /\ timestampToMs(last.next[i + 1].startTime) = splitMs
               /\ timestampToMs(last.next[i + 1].endTime) = E

\* C30: setting the start of the entry at place i to the playback time
\* leaves it with start >= the end of the entry before it, end <= the
\* start of the entry after it, start <= end and its duration, unless the
\* start of the entry after it cut it; every other entry is as it was.
C30_StartSetWithinNeighbours ==
    (input.kind = "startTime" /\ PositionOf(last.prev, input.index) > 0)
        => LET i == PositionOf(last.prev, input.index)
               n == Len(last.prev)
               start == timestampToMs(last.next[i].startTime)
               end == timestampToMs(last.next[i].endTime)
               durationMs == timestampToMs(last.prev[i].endTime)
                                 - timestampToMs(last.prev[i].startTime)
           IN  /\ Len(last.next) = n
               /\ \A j \in 1..n : j # i => last.next[j] = last.prev[j]
               /\ i > 1 => start >= timestampToMs(last.prev[i - 1].endTime)
               /\ i < n => end <= timestampToMs(last.prev[i + 1].startTime)
               /\ start <= end
               /\ \/ end - start = durationMs
                  \/ /\ i < n
                     /\ end = timestampToMs(last.prev[i + 1].startTime)

\* C31: setting the end of the entry at place i to the playback time leaves
\* it with end >= its own start and end <= the start of the entry after
\* it; its start and every other entry are as they were.
C31_EndSetWithinBounds ==
    (input.kind = "endTime" /\ PositionOf(last.prev, input.index) > 0)
        => LET i == PositionOf(last.prev, input.index)
               n == Len(last.prev)
               end == timestampToMs(last.next[i].endTime)
           IN  /\ Len(last.next) = n
               /\ \A j \in 1..n : j # i => last.next[j] = last.prev[j]
               /\ last.next[i].startTime = last.prev[i].startTime
               /\ last.next[i].index = last.prev[i].index
               /\ last.next[i].text = last.prev[i].text
               /\ end >= timestampToMs(last.prev[i].startTime)
               /\ i < n => end <= timestampToMs(last.prev[i + 1].startTime)

\* Two collections hold the same entries but for their indices.
SameButIndices(entries1, entries2) ==
    /\ Len(entries1) = Len(entries2)
    /\ \A j \in 1..Len(entries1) : SameContent(entries1[j], entries2[j])

\* entries with the entries at places i and j swapped.
Swapped(entries, i, j) ==
    [entries EXCEPT ![i] = entries[j], ![j] = entries[i]]

\* C32: moveEntry swaps the entry with its neighbour in the direction given
\* and changes nothing else but the indices; on the first entry up and on
\* the last entry down it leaves the collection and the history unchanged;
\* moving an entry down and then the same entry up gives the original
\* collection.
C32_MoveSwapsNeighbours ==
    /\ (input.kind = "moveEntry" /\ PositionOf(last.prev, input.index) > 0)
           => LET i == PositionOf(last.prev, input.index)
                  target == IF input.arg = "up" THEN i - 1 ELSE i + 1
              IN  IF target < 1 \/ target > Len(last.prev) THEN LeftAlone
                  ELSE SameButIndices(last.next,
                                      Swapped(last.prev, i, target))
    /\ (input.kind = "moveDownUp")
           => last.next = stateOf(input.history, input.currentIndex)

\* entries without the entry at place i.
Without(entries, i) ==
    [j \in 1..(Len(entries) - 1) |->
        IF j < i THEN entries[j] ELSE entries[j + 1]]

\* How many entries of entries have the start, end and text of e.
Copies(entries, e) ==
    Cardinality({j \in 1..Len(entries) : SameContent(entries[j], e)})

\* C33: reorder puts the entry of row fromIndex at row toIndex, keeps the
\* order of the other entries among themselves, keeps the length and the
\* multiset of (start, end, text), and numbers the collection 1..N; with
\* fromIndex = toIndex no snapshot is recorded.
C33_ReorderPlacesEntry ==
    (input.kind = "reorder")
        => LET from == input.index + 1
               to == input.arg + 1
           IN  /\ Len(last.next) = Len(last.prev)
               /\ SameContent(last.next[to], last.prev[from])
               /\ SameButIndices(Without(last.next, to),
                                 Without(last.prev, from))
               /\ \A j \in 1..Len(last.prev) :
                      Copies(last.next, last.prev[j])
                          = Copies(last.prev, last.prev[j])
               /\ \A j \in 1..Len(last.next) : last.next[j].index = j
               /\ from = to
                      => /\ history = input.history
                         /\ currentIndex = input.currentIndex

\* C34: the entries of a successful response of a generate or of a refine
\* become the current collection when the response arrives, whatever was
\* done to the collection while the request was in flight.
C34_ResponseBecomesCurrent ==
    last.op \in {"generated", "refined"} => srtEntries = last.next

\* C35: the history is never empty, the cursor is within it, the current
\* collection is the snapshot at the cursor, and no two adjacent snapshots
\* are equal.
C35_HistoryWellFormed ==
    /\ Len(history) >= 1
    /\ 0 <= currentIndex
    /\ currentIndex < Len(history)
    /\ srtEntries = history[currentIndex + 1]
    /\ \A i \in 1..(Len(history) - 1) : history[i] # history[i + 1]

\* After an edit and an undo the cursor is on the first of MaxHistory
\* snapshots.
C35_CursorBehindTheEnd ==
    /\ last.op = "undo"
    /\ Len(history) = MaxHistory
    /\ currentIndex = 0

\* C36: undo and redo move the cursor and nothing else: the snapshots, the
\* offset and the end padding keep their values, so after an offset change
\* that was recorded and is undone the offset is still the value given
\* while the current collection is the one from before the shift.
C36_UndoRedoKeepSliders ==
    [][/\ (Undo \/ Redo)
              => /\ offset' = offset
                 /\ endTimePadding' = endTimePadding
                 /\ history' = history
       /\ (last.op = "offsetChange" /\ last.next # last.prev /\ Undo)
              => /\ offset' = offset
                 /\ srtEntries' = last.prev]_vars

\* An offset change was recorded and undone: the current collection is the
\* first snapshot, the second is the first shifted by the offset, which is
\* not 0.
C36_OffsetChangeUndone ==
    /\ last.op = "undo"
    /\ offset # 0
    /\ Len(history) = 2
    /\ currentIndex = 0
    /\ history[2] = handleOffsetChange(history[1], offset)

\* The collection that undo makes current.
Undone(h, ci) == stateOf(undoOf(h, ci).history, undoOf(h, ci).currentIndex)

\* C37: a successful refine whose result differs from the current
\* collection is recorded as a mutation: the snapshots up to the cursor
\* are kept and the result is put after them, undo then gives the
\* collection from before the refine, and the offset and the end padding
\* are 0.
C37_RefineRecordedAsMutation ==
    [][\A p \in inflight, reply \in RefineReplies :
           (/\ RefineSettled(p, reply)
            /\ refineSrtTimings(p.entries, reply).ok
            /\ refineSrtTimings(p.entries, reply).entries # srtEntries)
               => /\ history' = Append(SubSeq(history, 1, currentIndex + 1),
                                       refineSrtTimings(p.entries, reply).entries)
                  /\ currentIndex' = currentIndex + 1
                  /\ Undone(history', currentIndex') = srtEntries
                  /\ offset' = 0
                  /\ endTimePadding' = 0]_vars

\* The collection the first of two handlers found.
Original == stateOf(input.history, input.currentIndex)

\* C38: an accepted splitAt on an entry with start S <= end E gives two
\* adjacent entries with first.start = S, first.end = second.start,
\* second.end = E and S <= first.end <= E; mergeWithNext on the first
\* half right after gives one entry with start S and end E, the length of
\* the collection as it was and the start, end and text of every other
\* entry as they were.
C38_SplitThenMerge ==
    /\ (/\ input.kind = "splitAt"
        /\ PositionOf(last.prev, input.index) > 0
        /\ Len(last.next) = Len(last.prev) + 1)
           => LET i == PositionOf(last.prev, input.index)
                  S == timestampToMs(last.prev[i].startTime)
                  E == timestampToMs(last.prev[i].endTime)
                  cut == timestampToMs(last.next[i].endTime)
              IN  S <= E
                      => /\ timestampToMs(last.next[i].startTime) = S
                         /\ timestampToMs(last.next[i + 1].startTime) = cut
                         /\ timestampToMs(last.next[i + 1].endTime) = E
                         /\ S <= cut
                         /\ cut <= E
    /\ (input.kind = "splitMerge")
           => LET i == PositionOf(Original, input.index)
              IN  /\ Len(last.next) = Len(Original)
                  /\ last.next[i].startTime = Original[i].startTime
                  /\ last.next[i].endTime = Original[i].endTime
                  /\ \A j \in 1..Len(Original) :
                         j # i => SameContent(last.next[j], Original[j])

\* The entry of 1325 ms in the middle of MaxEditEntries entries was split
\* inside its duration and the halves were merged.
C38_MiddleEntrySplitAndMerged ==
    /\ input.kind = "splitMerge"
    /\ Len(Original) = MaxEditEntries
    /\ PositionOf(Original, input.index) = 2
    /\ timestampToMs(Original[2].endTime)
           - timestampToMs(Original[2].startTime) = 1325
    /\ timestampToMs(last.prev[2].endTime)
           > timestampToMs(Original[2].startTime)
    /\ timestampToMs(last.prev[2].endTime)
           < timestampToMs(Original[2].endTime)
    /\ Len(last.next) = MaxEditEntries

\* Whether the import noted in input fails: the file is empty, its
\* extension is not srt, vtt or lrc, or it parses to no entry.
ImportFails ==
    \/ input.file.content = <<>>
    \/ input.file.extension \notin {"srt", "vtt", "lrc"}
    \/ Len(input.entries) = 0

====
